---- MODULE Spec2Model ----
(***************************************************************************)
(* Model of the bitnet_tools profiling and drift engine.                   *)
(*                                                                         *)
(*   SpecProfile : multi_csv._profile_csv_stream, one row per step         *)
(*   SpecCompare : compare.compare_csv_texts, one call                     *)
(*   SpecLineage : compare_csv_texts called repeatedly on a lineage store  *)
(*   SpecFingerprint : versioning.build_dataset_fingerprint on two inputs  *)
(*   SpecAnalyze : multi_csv.analyze_multiple_csv, serial and worker pool  *)
(*   SpecCache   : the cache directory under concurrent profiling calls    *)
(*   SpecCacheSeq: the cache directory under the serial loop of calls      *)
(*   SpecKey     : multi_csv._cache_key over two calls on one file         *)
(*                                                                         *)
(* Every specification owns a group of variables; the variables of the     *)
(* other groups stay at their idle values.                                 *)
(*                                                                         *)
(* Text is a sequence of one-character strings, so that strip(), the       *)
(* symbol removal of _to_float and float() act on characters.  Python's    *)
(* None is the value None below, which is no cell of any modelled file.    *)
(***************************************************************************)
EXTENDS Integers, Sequences, FiniteSets, TLC

\* ------------------------------------------------------------------ bounds
\* Rows of the profiled file.
MaxRows == 4
\* Files of one analyze_multiple_csv call, and the largest max_workers.
MaxPaths == 2
MaxWorkers == 2
\* Calls of compare_csv_texts on one lineage store.
MaxCompareCalls == 2

\* Largest size and modification time of a profiled file.
MaxStat == 2

\* Threads sharing the cache directory, cache keys, writes that make up the
\* largest entry file, the latest clock reading of the cache, and the calls
\* of _load_or_profile_file the serial loop makes.
NumThreads == 2
NumKeys == 3
NumChunks == 2
MaxTime == 2
MaxCalls == 4
\* Rows of a compared CSV text.
MaxTextRows == 2
\* The latest clock reading.
MaxClock == 1

\* Module constants and literals of multi_csv.py, scaled to the model's size
\* (the repository's tests patch them the same way, test_analysis.py:134).
\* TOP_VALUE_TRACK_CAP is 5000 in the source (multi_csv.py:21).
TOP_VALUE_TRACK_CAP == 2
\* most_common(5) and [:5] in the source (multi_csv.py:237,240).
TOP_N == 2
\* value_sample_cap=300 and outlier_sample_cap=20000 (multi_csv.py:151-152).
value_sample_cap == 2
outlier_sample_cap == 2
\* UNIQUE_BITMAP_SIZE is 65536 in the source (multi_csv.py:20); the bitmap is
\* bytearray(UNIQUE_BITMAP_SIZE // 8), so the scaled size stays a multiple of 8.
UNIQUE_BITMAP_SIZE == 8
\* CACHE_ENTRY_TTL_SECONDS is 86400 and CACHE_MAX_TOTAL_BYTES 256 MiB in the
\* source (multi_csv.py:22-23); here in clock ticks and in chunks.
CACHE_ENTRY_TTL_SECONDS == 1
CACHE_MAX_TOTAL_BYTES == 3

\* ------------------------------------------------------------------- state
\* multi_csv._profile_csv_stream
VARIABLES
    scan_pc,                  \* "scan" while rows are read, then "done"
    columns,                  \* reader.fieldnames
    sha1idx,                  \* value -> bit index of _update_unique_bitmap
    row_count,
    missing, non_missing, unique_bitmaps, value_counts, value_overflow,
    value_samples, numeric_positive, numeric_zero, numeric_negative,
    numeric_counts, numeric_sums, numeric_mins, numeric_maxs, text_seen,
    numeric_outlier_samples,
    profiles,                 \* column_profiles of the returned dict
    numeric_stats,            \* summary['numeric_stats']
    column_values             \* history: rows of the file holding each value

profileVars ==
    <<scan_pc, columns, sha1idx, row_count, missing, non_missing,
      unique_bitmaps, value_counts, value_overflow, value_samples,
      numeric_positive, numeric_zero, numeric_negative, numeric_counts,
      numeric_sums, numeric_mins, numeric_maxs, text_seen,
      numeric_outlier_samples, profiles, numeric_stats, column_values>>

\* compare.compare_csv_texts and the lineage store of versioning.py
VARIABLES
    cmp_pc,                   \* "ready" before the call, then "returned"
    before_csv_text, after_csv_text, before_source, after_source,
    cmp_result,               \* the dict the call returned
    lineage_files,            \* LINEAGE_DIR: path -> record
    utc_now,                  \* datetime.now(timezone.utc)
    sha256_prefix,            \* digest -> its first 12 characters
    compare_calls             \* calls of compare_csv_texts so far

compareVars ==
    <<cmp_pc, before_csv_text, after_csv_text, before_source, after_source,
      cmp_result, lineage_files, utc_now, sha256_prefix, compare_calls>>

\* multi_csv.analyze_multiple_csv
VARIABLES
    an_pc,                    \* position of the calling thread
    csv_paths, max_workers, use_cache,
    source_kind,              \* path -> "csv" | "headerless"
    cache_entry,              \* path -> content of its cache entry file
    index_writable,           \* whether the index file can be replaced
    futures,                  \* state of each submitted task
    outcomes,                 \* result or exception of each finished task
    collected,                \* tasks whose result the caller has taken
    profiled_list, files, an_exception,
    finish_order,             \* history: tasks in completion order
    scanned                   \* history: tasks that scanned their source

analyzeVars ==
    <<an_pc, csv_paths, max_workers, use_cache, source_kind, cache_entry,
      index_writable, futures, outcomes, collected, profiled_list, files,
      an_exception, finish_order, scanned>>

\* The cache directory of multi_csv.py and the threads that run
\* _load_or_profile_file on it
VARIABLES
    stream_write,             \* os.getenv('BITNET_CACHE_STREAM_WRITE', '1') != '0'
    cache_clock,              \* datetime.utcnow().timestamp()
    dir_entry,                \* key -> inode linked as <key>.json, 0 if none
    dir_tmp,                  \* key -> inode linked as <key>.tmp, 0 if none
    inodes,                   \* inode -> [chunks, mtime]
    index_file,               \* entries of multi_csv_cache_index.json, in
                              \* dict order
    index_tmp,                \* thread -> whether its index .tmp file exists
    th,                       \* thread -> its locals and position
    calls_made,               \* calls of the serial loop so far
    utc_offset                \* local time minus UTC in the process's time zone

cacheVars ==
    <<stream_write, cache_clock, dir_entry, dir_tmp, inodes, index_file,
      index_tmp, th, calls_made, utc_offset>>

\* versioning.build_dataset_fingerprint on two inputs
VARIABLES
    fp_pc,                    \* "ready", then "done"
    fp_inputs,                \* the two (csv_text, source_name) inputs
    fp_versions               \* the DatasetVersion of each

fpVars == <<fp_pc, fp_inputs, fp_versions>>

\* multi_csv._cache_key and the two calls of _load_or_profile_file it serves
VARIABLES
    key_pc,                   \* "start", "saved" (first call), "returned"
    key_args,                 \* the arguments and file stat of the running call
    key_store,                \* the entry the first call saved: key, components
    key_result                \* the second call: hit or miss, whose profile

keyVars == <<key_pc, key_args, key_store, key_result>>

\* analysis.summarize_reader on one input
VARIABLES
    sum_pc,                   \* "ready", then "done"
    sum_columns,              \* the argument `columns`
    sum_rows,                 \* the argument `rows`: what csv.reader yields
    data_summary              \* the DataSummary returned

summaryVars == <<sum_pc, sum_columns, sum_rows, data_summary>>

\* compare._psi, _js_divergence and _chi_square on one pair of count lists
VARIABLES
    met_pc,                   \* "ready", then "done"
    met_before,            \* the bucket counts of the before file
    met_after,             \* the bucket counts of the after file
    met_result                \* the three metrics, as floats

metricVars == <<met_pc, met_before, met_after, met_result>>

\* explain.generate_reason_candidates on the files of analyze_multiple_csv
VARIABLES
    ex_pc,                    \* "explain" (the loop over the files), "returned"
    ex_files,                 \* per file: path, column_profiles, rows on disk
    files_reasons,            \* per file: its 'reason_candidates'
    rule_results,             \* history, per file: what each of the four
                              \* rules returned
    recent_windows,           \* history, per file: the series and windows of
                              \* each date column of _rule_recent_change
    reason_candidates         \* 'reason_candidates' of the returned dict

explainVars ==
    <<ex_pc, ex_files, files_reasons, rule_results, recent_windows,
      reason_candidates>>

\* multi_csv._schema_drift on the files of one analyze_multiple_csv call
VARIABLES
    drift_pc,                 \* "ready", then "done"
    drift_files,              \* `files`: per file its columns, column_profiles
                              \* and summary['numeric_stats']
    shared_columns,           \* sorted(set.intersection(*all_columns))
    drift                     \* the dict _schema_drift returned

driftVars == <<drift_pc, drift_files, shared_columns, drift>>

\* web.py: the preprocess jobs
VARIABLES
    job_now,                  \* datetime.now(timezone.utc), in clock ticks
    accepted,                 \* per job id returned by submit_preprocess_job:
                              \* its payload and expire_at
    PREPROCESS_JOBS,          \* _PREPROCESS_JOBS: job id -> record
    pool_queue,               \* work queue of _PREPROCESS_EXECUTOR
    pool_workers,             \* the threads of _PREPROCESS_EXECUTOR
    response                  \* what the last get_preprocess_job returned

jobVars == <<job_now, accepted, PREPROCESS_JOBS, pool_queue, pool_workers, response>>

\* The groups of analysis.py, explain.py and web.py
extraVars == <<summaryVars, metricVars, explainVars, driftVars, jobVars>>

vars ==
    <<profileVars, compareVars, analyzeVars, cacheVars, keyVars, fpVars,
      extraVars>>

\* What the actions of one group leave unchanged.
notProfile ==
    <<compareVars, analyzeVars, cacheVars, keyVars, fpVars,
      extraVars>>
notCompare ==
    <<profileVars, analyzeVars, cacheVars, keyVars, fpVars,
      extraVars>>
notAnalyze ==
    <<profileVars, compareVars, cacheVars, keyVars, fpVars,
      extraVars>>
notCache ==
    <<profileVars, compareVars, analyzeVars, keyVars, fpVars,
      extraVars>>
notKey ==
    <<profileVars, compareVars, analyzeVars, cacheVars, fpVars,
      extraVars>>
notFp ==
    <<profileVars, compareVars, analyzeVars, cacheVars, keyVars,
      extraVars>>
coreVars ==
    <<profileVars, compareVars, analyzeVars, cacheVars, keyVars, fpVars>>
notSummary == <<coreVars, metricVars, explainVars, driftVars, jobVars>>
notMetric == <<coreVars, summaryVars, explainVars, driftVars, jobVars>>
notExplain == <<coreVars, summaryVars, metricVars, driftVars, jobVars>>
notDrift == <<coreVars, summaryVars, metricVars, explainVars, jobVars>>
notJob == <<coreVars, summaryVars, metricVars, explainVars, driftVars>>

\* ------------------------------------------------------------------ values
None == <<"None">>
\* The synthetic top-value key '__OTHER__' (multi_csv.py:239).
OtherKey == <<"__OTHER__">>

Max(a, b) == IF a >= b THEN a ELSE b
Min(a, b) == IF a <= b THEN a ELSE b

\* round(num / den, 6), in millionths (num, den >= 0, den > 0).
Round6(num, den) == (2 * num * 1000000 + den) \div (2 * den)

\* ------------------------------------------------------------ text helpers
IsSpace(ch) == ch = " "

RECURSIVE LStrip(_)
LStrip(s) == IF s # <<>> /\ IsSpace(Head(s)) THEN LStrip(Tail(s)) ELSE s

RECURSIVE RStrip(_)
RStrip(s) ==
    IF s # <<>> /\ IsSpace(s[Len(s)]) THEN RStrip(SubSeq(s, 1, Len(s) - 1)) ELSE s

\* str.strip()
Strip(s) == RStrip(LStrip(s))

\* str.replace(ch, "") for each ch of a set
RECURSIVE RemoveChars(_, _)
RemoveChars(s, chars) ==
    IF s = <<>> THEN <<>>
    ELSE IF Head(s) \in chars THEN RemoveChars(Tail(s), chars)
    ELSE <<Head(s)>> \o RemoveChars(Tail(s), chars)

DigitValue(ch) ==
    CASE ch = "0" -> 0 [] ch = "1" -> 1 [] ch = "2" -> 2 [] ch = "3" -> 3
      [] ch = "4" -> 4 [] ch = "5" -> 5 [] ch = "6" -> 6 [] ch = "7" -> 7
      [] ch = "8" -> 8 [] ch = "9" -> 9

IsDigit(ch) == ch \in {"0", "1", "2", "3", "4", "5", "6", "7", "8", "9"}

RECURSIVE DigitsValue(_, _)
DigitsValue(s, acc) ==
    IF s = <<>> THEN acc ELSE DigitsValue(Tail(s), 10 * acc + DigitValue(Head(s)))

\* An optional float: the one-element tuple of its (integer) value, or NoFloat.
NoFloat == <<>>

\* float(v) on an optionally signed run of digits; NoFloat stands for ValueError.
ParseFloat(v) ==
    LET body == IF v # <<>> /\ Head(v) \in {"-", "+"} THEN Tail(v) ELSE v
        sign == IF v # <<>> /\ Head(v) = "-" THEN -1 ELSE 1
    IN  IF body # <<>> /\ \A i \in 1..Len(body) : IsDigit(body[i])
        THEN <<sign * DigitsValue(body, 0)>>
        ELSE NoFloat

\* The characters _to_float deletes: "," and the won, dollar, euro, pound and
\* percent signs (the non-ASCII ones are written by name).
CurrencyChars == {",", "<won>", "$", "<euro>", "<pound>", "%"}

\* analysis._to_float
to_float(value) ==
    LET v0 == Strip(value)
        negative_by_parentheses ==
            v0 # <<>> /\ Head(v0) = "(" /\ v0[Len(v0)] = ")"
        v1 == IF negative_by_parentheses
              THEN Strip(SubSeq(v0, 2, Len(v0) - 1)) ELSE v0
        v2 == Strip(RemoveChars(v1, CurrencyChars))
        parsed == ParseFloat(v2)
    IN  IF v0 = <<>> THEN NoFloat
        ELSE IF v2 = <<>> THEN NoFloat
        ELSE IF parsed = NoFloat THEN NoFloat
        ELSE IF negative_by_parentheses THEN <<-parsed[1]>> ELSE parsed

\* ================================================================ profiler
\* multi_csv._profile_csv_stream (group_column = target_column = None), one
\* row per step.
\* The headers of the profiled files: distinct names, and a repeated name.
Headers == {<<"x", "y">>, <<"x", "x">>}

\* Cells of the first and of the second field of a row.
FirstCells == {<<>>, <<" ">>, <<"1">>, <<"a">>, <<"b">>}
SecondCells == {<<>>, <<"1">>}

\* The rows csv.reader yields: a row may be shorter than the header.
Rows == {<<c>> : c \in FirstCells}
            \cup {<<c, d>> : c \in FirstCells, d \in SecondCells}

\* The non-missing values a column can hold.
Values == {Strip(c) : c \in FirstCells \cup SecondCells} \ {<<>>}

ColNames(cols) == {cols[i] : i \in 1..Len(cols)}

\* csv.DictReader.__next__: d = dict(zip(fieldnames, row)), then every
\* fieldname past the row's length is set to restval (None).
DictRow(fieldnames, row) ==
    [c \in ColNames(fieldnames) |->
        LET pos == {i \in 1..Len(fieldnames) : fieldnames[i] = c}
            last == CHOOSE i \in pos : \A j \in pos : j <= i
        IN  IF last > Len(row) THEN None ELSE row[last]]

\* sha1(value) is a fixed unknown function of the value.  The estimator reads
\* only the number of set bits, so one hash per collision pattern is kept: the
\* k-th value hashes to a bit already used or to the next unused one.
ValueOrder == <<<<"1">>, <<"a">>, <<"b">>>>

HashChoices ==
    {h \in [Values -> 0..(UNIQUE_BITMAP_SIZE - 1)] :
        \A k \in 1..Len(ValueOrder) :
            /\ h[ValueOrder[k]] < k
            /\ \A j \in 1..(h[ValueOrder[k]]) :
                   \E m \in 1..(k - 1) : h[ValueOrder[m]] = j - 1}

\* _update_unique_bitmap: the bitmap is the set of its set bit indices.
update_unique_bitmap(bitmap, value) ==
    bitmap \cup {sha1idx[value] % UNIQUE_BITMAP_SIZE}

\* ln(B / z) as 2 * atanh((B - z) / (B + z)), in fixed point: the series
\* t + t^3/3 + t^5/5 + ... summed until the power underflows.
LN_SCALE == 30000

RECURSIVE AtanhSeries(_, _, _)
AtanhSeries(t, pow, k) ==
    IF pow = 0 THEN 0
    ELSE (pow \div k) + AtanhSeries(t, (((pow * t) \div LN_SCALE) * t) \div LN_SCALE, k + 2)

\* -B * math.log(z / B), times LN_SCALE
NegBLog(B, z) ==
    LET t == ((B - z) * LN_SCALE) \div (B + z)
    IN  2 * B * AtanhSeries(t, t, 1)

\* _estimate_unique_count
estimate_unique_count(bitmap) ==
    LET set_bits == Cardinality(bitmap)
        zero_bits == UNIQUE_BITMAP_SIZE - set_bits
    IN  IF set_bits <= 0 THEN 0
        ELSE IF set_bits >= UNIQUE_BITMAP_SIZE THEN UNIQUE_BITMAP_SIZE
        ELSE Max(1, (2 * NegBLog(UNIQUE_BITMAP_SIZE, zero_bits) + LN_SCALE)
                        \div (2 * LN_SCALE))

\* A Counter is the sequence of its [value, count] items in insertion order.
InCounter(counter, value) == \E i \in 1..Len(counter) : counter[i].value = value

\* The counter that tests the cap before it looks the value up.
update_bounded_counter_cap_first(counter, value, other_count, cap) ==
    IF Len(counter) >= cap
    THEN [counter |-> counter, other |-> other_count + 1]
    ELSE IF InCounter(counter, value)
    THEN [counter |-> [i \in 1..Len(counter) |->
                          IF counter[i].value = value
                          THEN [counter[i] EXCEPT !.count = @ + 1]
                          ELSE counter[i]],
          other |-> other_count]
    ELSE [counter |-> Append(counter, [value |-> value, count |-> 1]),
          other |-> other_count]

\* _update_bounded_counter: the updated counter and overflow count
update_bounded_counter(counter, value, other_count, cap) ==
    IF InCounter(counter, value)
    THEN [counter |-> [i \in 1..Len(counter) |->
                          IF counter[i].value = value
                          THEN [counter[i] EXCEPT !.count = @ + 1]
                          ELSE counter[i]],
          other |-> other_count]
    ELSE IF Len(counter) < cap
    THEN [counter |-> Append(counter, [value |-> value, count |-> 1]),
          other |-> other_count]
    ELSE [counter |-> counter, other |-> other_count + 1]

\* _reservoir_sample: the lists random.randint(0, seen - 1) can leave
reservoir_sample(values, new_value, seen, cap) ==
    IF cap <= 0 THEN {values}
    ELSE IF Len(values) < cap THEN {Append(values, new_value)}
    ELSE {IF idx < cap THEN [values EXCEPT ![idx + 1] = new_value] ELSE values :
             idx \in 0..(seen - 1)}

\* The reservoir that takes a drawn item in as one more item.
reservoir_sample_str_grow(values, new_value, seen, cap) ==
    IF cap <= 0 THEN {values}
    ELSE IF Len(values) < cap THEN {Append(values, new_value)}
    ELSE {IF idx < cap THEN Append(values, new_value) ELSE values :
             idx \in 0..(seen - 1)}

\* _reservoir_sample_str
reservoir_sample_str(values, new_value, seen, cap) ==
    IF cap <= 0 THEN {values}
    ELSE IF Len(values) < cap THEN {Append(values, new_value)}
    ELSE {IF idx < cap THEN [values EXCEPT ![idx + 1] = new_value] ELSE values :
             idx \in 0..(seen - 1)}

\* The accumulators of the scan, as one record.
Acc ==
    [missing |-> missing, non_missing |-> non_missing,
     unique_bitmaps |-> unique_bitmaps, value_counts |-> value_counts,
     value_overflow |-> value_overflow, value_samples |-> value_samples,
     numeric_positive |-> numeric_positive, numeric_zero |-> numeric_zero,
     numeric_negative |-> numeric_negative, numeric_counts |-> numeric_counts,
     numeric_sums |-> numeric_sums, numeric_mins |-> numeric_mins,
     numeric_maxs |-> numeric_maxs, text_seen |-> text_seen,
     numeric_outlier_samples |-> numeric_outlier_samples]

\* The body of `for col in columns` for one column (multi_csv.py:189-217):
\* the set of accumulators it can leave.
ObserveCell(a, col, cell) ==
    LET raw == Strip(IF cell = None THEN <<>> ELSE cell)
        nn == a.non_missing[col] + 1
        bc == update_bounded_counter(a.value_counts[col], raw,
                                     a.value_overflow[col], TOP_VALUE_TRACK_CAP)
        num == to_float(raw)
        a1 == [a EXCEPT
                 !.non_missing[col] = nn,
                 !.unique_bitmaps[col] = update_unique_bitmap(@, raw),
                 !.value_counts[col] = bc.counter,
                 !.value_overflow[col] = bc.other]
        ncount == a.numeric_counts[col] + 1
    IN  IF raw = <<>> THEN {[a EXCEPT !.missing[col] = @ + 1]}
        ELSE IF num = NoFloat
        THEN {[a1 EXCEPT !.value_samples[col] = vs, !.text_seen[col] = TRUE] :
                 vs \in reservoir_sample_str(a.value_samples[col], raw, nn,
                                             value_sample_cap)}
        ELSE {[a1 EXCEPT
                 !.value_samples[col] = vs,
                 !.numeric_counts[col] = ncount,
                 !.numeric_sums[col] = @ + num[1],
                 !.numeric_mins[col] =
                     IF @ = NoFloat \/ num[1] < @[1] THEN num ELSE @,
                 !.numeric_maxs[col] =
                     IF @ = NoFloat \/ num[1] > @[1] THEN num ELSE @,
                 !.numeric_positive[col] = IF num[1] > 0 THEN @ + 1 ELSE @,
                 !.numeric_negative[col] = IF num[1] < 0 THEN @ + 1 ELSE @,
                 !.numeric_zero[col] = IF num[1] = 0 THEN @ + 1 ELSE @,
                 !.numeric_outlier_samples[col] = os] :
                 vs \in reservoir_sample_str(a.value_samples[col], raw, nn,
                                             value_sample_cap),
                 os \in reservoir_sample(a.numeric_outlier_samples[col], num[1],
                                         ncount, outlier_sample_cap)}

\* `for col in columns` from position i on, over a set of accumulators.
RECURSIVE ObserveColumns(_, _, _, _)
ObserveColumns(accs, cols, row, i) ==
    IF i > Len(cols) THEN accs
    ELSE ObserveColumns(
             UNION {ObserveCell(a, cols[i], row[cols[i]]) : a \in accs},
             cols, row, i + 1)

ProfileInit ==
    /\ scan_pc = "scan"
    /\ columns \in Headers
    /\ sha1idx \in HashChoices
    /\ row_count = 0
    /\ missing = [c \in ColNames(columns) |-> 0]
    /\ non_missing = [c \in ColNames(columns) |-> 0]
    /\ unique_bitmaps = [c \in ColNames(columns) |-> {}]
    /\ value_counts = [c \in ColNames(columns) |-> <<>>]
    /\ value_overflow = [c \in ColNames(columns) |-> 0]
    /\ value_samples = [c \in ColNames(columns) |-> <<>>]
    /\ numeric_positive = [c \in ColNames(columns) |-> 0]
    /\ numeric_zero = [c \in ColNames(columns) |-> 0]
    /\ numeric_negative = [c \in ColNames(columns) |-> 0]
    /\ numeric_counts = [c \in ColNames(columns) |-> 0]
    /\ numeric_sums = [c \in ColNames(columns) |-> 0]
    /\ numeric_mins = [c \in ColNames(columns) |-> NoFloat]
    /\ numeric_maxs = [c \in ColNames(columns) |-> NoFloat]
    /\ text_seen = [c \in ColNames(columns) |-> FALSE]
    /\ numeric_outlier_samples = [c \in ColNames(columns) |-> <<>>]
    /\ profiles = <<>>
    /\ numeric_stats = <<>>
    /\ column_values = [c \in ColNames(columns) |-> [v \in Values |-> 0]]

\* One iteration of `for row in reader` (multi_csv.py:180-217).
ScanRow ==
    /\ scan_pc = "scan"
    /\ row_count < MaxRows
    /\ \E r \in Rows :
        /\ Len(r) <= Len(columns)
        /\ \E a \in ObserveColumns({Acc}, columns, DictRow(columns, r), 1) :
            /\ missing' = a.missing
            /\ non_missing' = a.non_missing
            /\ unique_bitmaps' = a.unique_bitmaps
            /\ value_counts' = a.value_counts
            /\ value_overflow' = a.value_overflow
            /\ value_samples' = a.value_samples
            /\ numeric_positive' = a.numeric_positive
            /\ numeric_zero' = a.numeric_zero
            /\ numeric_negative' = a.numeric_negative
            /\ numeric_counts' = a.numeric_counts
            /\ numeric_sums' = a.numeric_sums
            /\ numeric_mins' = a.numeric_mins
            /\ numeric_maxs' = a.numeric_maxs
            /\ text_seen' = a.text_seen
            /\ numeric_outlier_samples' = a.numeric_outlier_samples
        /\ column_values' =
               [c \in ColNames(columns) |->
                   LET cell == DictRow(columns, r)[c]
                       raw == Strip(IF cell = None THEN <<>> ELSE cell)
                   IN  IF raw = <<>> THEN column_values[c]
                       ELSE [column_values[c] EXCEPT ![raw] = @ + 1]]
    /\ row_count' = row_count + 1
    /\ UNCHANGED <<scan_pc, columns, sha1idx, profiles, numeric_stats>>
    /\ UNCHANGED notProfile

RemoveAt(s, i) == SubSeq(s, 1, i - 1) \o SubSeq(s, i + 1, Len(s))

\* sorted(items, key=count, reverse=True): stable, so items of equal count
\* keep their order in `items`.
RECURSIVE SortedByCountDesc(_)
SortedByCountDesc(items) ==
    IF items = <<>> THEN <<>>
    ELSE LET first == CHOOSE i \in 1..Len(items) :
                          /\ \A j \in 1..Len(items) : items[j].count <= items[i].count
                          /\ \A j \in 1..(i - 1) : items[j].count < items[i].count
         IN  <<items[first]>> \o SortedByCountDesc(RemoveAt(items, first))

\* Counter.most_common(n)
most_common(counter, n) ==
    SubSeq(SortedByCountDesc(counter), 1, Min(n, Len(counter)))

\* multi_csv.py:237-244
TopValues(col) ==
    LET top0 == most_common(value_counts[col], TOP_N)
        merged == Append(top0, [value |-> OtherKey, count |-> value_overflow[col]])
        top == IF value_overflow[col] > 0
               THEN SubSeq(SortedByCountDesc(merged), 1, Min(TOP_N, Len(merged)))
               ELSE top0
    IN  [i \in 1..Len(top) |->
            [value |-> top[i].value,
             count |-> top[i].count,
             ratio |-> IF row_count # 0 THEN Round6(top[i].count, row_count) ELSE 0]]

\* A column with a numeric value is "float" whatever else it holds.
Dtype_any_numeric(col) ==
    IF numeric_counts[col] > 0 THEN "float" ELSE "string"

\* multi_csv.py:225-234
Dtype(col) ==
    IF numeric_counts[col] > 0 /\ ~text_seen[col] THEN "float" ELSE "string"

\* multi_csv.py:246-254, without outlier_ratio; <<>> is the empty dict
NumericDistribution(col) ==
    LET numeric_total ==
            numeric_positive[col] + numeric_zero[col] + numeric_negative[col]
    IN  IF numeric_total # 0
        THEN [positive_ratio |-> Round6(numeric_positive[col], numeric_total),
              zero_ratio |-> Round6(numeric_zero[col], numeric_total),
              negative_ratio |-> Round6(numeric_negative[col], numeric_total)]
        ELSE <<>>

\* profiles[col] (multi_csv.py:236-271); ratios are in millionths.  The
\* semantic_type and outlier_ratio fields are not part of the record.
ColumnProfile(col) ==
    LET nn == non_missing[col]
        top_values == TopValues(col)
        unique_count == estimate_unique_count(unique_bitmaps[col])
    IN  [missing_count |-> missing[col],
         missing_ratio |-> IF row_count # 0 THEN Round6(missing[col], row_count) ELSE 0,
         non_missing_count |-> nn,
         unique_count |-> unique_count,
         unique_ratio |-> IF nn # 0 THEN Round6(Min(unique_count, nn), nn) ELSE 0,
         dominant_value_ratio |-> IF top_values # <<>> THEN top_values[1].ratio ELSE 0,
         top_values |-> top_values,
         numeric_distribution |-> NumericDistribution(col),
         dtype |-> Dtype(col),
         top_values_capped |-> value_overflow[col] > 0]

\* The loop after the scan and the returned dict (multi_csv.py:219-286).
\* A mean is the pair <<sum, count>>.
FinishScan ==
    /\ scan_pc = "scan"
    /\ scan_pc' = "done"
    /\ profiles' = [c \in ColNames(columns) |-> ColumnProfile(c)]
    /\ numeric_stats' =
           [c \in {d \in ColNames(columns) : Dtype(d) = "float"} |->
               [count |-> numeric_counts[c],
                mean |-> <<numeric_sums[c], numeric_counts[c]>>,
                min |-> numeric_mins[c][1],
                max |-> numeric_maxs[c][1]]]
    /\ UNCHANGED <<columns, sha1idx, row_count, missing, non_missing,
                   unique_bitmaps, value_counts, value_overflow, value_samples,
                   numeric_positive, numeric_zero, numeric_negative,
                   numeric_counts, numeric_sums, numeric_mins, numeric_maxs,
                   text_seen, numeric_outlier_samples, column_values>>
    /\ UNCHANGED notProfile


\* ============================================================== summarizer
\* analysis.summarize_reader, applied to the rows of one file.
MaxSummaryRows == 2

\* The accumulators of summarize_reader before the first row
\* (analysis.py:88-94).
SummaryAcc(cols) ==
    [row_count |-> 0,
     missing_counts |-> [c \in ColNames(cols) |-> 0],
     numeric_counts |-> [c \in ColNames(cols) |-> 0],
     numeric_sums |-> [c \in ColNames(cols) |-> 0],
     numeric_mins |-> [c \in ColNames(cols) |-> NoFloat],
     numeric_maxs |-> [c \in ColNames(cols) |-> NoFloat],
     text_seen |-> [c \in ColNames(cols) |-> FALSE]]

\* The body of `for col in columns` for one column (analysis.py:99-112).
SummarizeCell(a, col, cell) ==
    LET raw == Strip(IF cell = None THEN <<>> ELSE cell)
        num == to_float(raw)
    IN  IF raw = <<>> THEN [a EXCEPT !.missing_counts[col] = @ + 1]
        ELSE IF num = NoFloat THEN [a EXCEPT !.text_seen[col] = TRUE]
        ELSE [a EXCEPT
                !.numeric_counts[col] = @ + 1,
                !.numeric_sums[col] = @ + num[1],
                !.numeric_mins[col] =
                    IF @ = NoFloat \/ num[1] < @[1] THEN num ELSE @,
                !.numeric_maxs[col] =
                    IF @ = NoFloat \/ num[1] > @[1] THEN num ELSE @]

\* `for col in columns` from position i on.
RECURSIVE SummarizeColumns(_, _, _, _)
SummarizeColumns(a, cols, row, i) ==
    IF i > Len(cols) THEN a
    ELSE SummarizeColumns(SummarizeCell(a, cols[i], row[cols[i]]),
                          cols, row, i + 1)

\* `for row in rows` from position i on (analysis.py:96-112).
RECURSIVE SummarizeRows(_, _, _, _)
SummarizeRows(a, cols, rows, i) ==
    IF i > Len(rows) THEN a
    ELSE SummarizeRows(
             SummarizeColumns([a EXCEPT !.row_count = @ + 1], cols,
                              DictRow(cols, rows[i]), 1),
             cols, rows, i + 1)

\* analysis.py:117-118
SummaryDtype(a, col) ==
    IF a.numeric_counts[col] > 0 /\ ~a.text_seen[col] THEN "float" ELSE "string"

\* analysis.summarize_reader; a mean is the pair <<sum, count>>.
summarize_reader(rows, cols) ==
    LET a == SummarizeRows(SummaryAcc(cols), cols, rows, 1)
    IN  [row_count |-> a.row_count,
         column_count |-> Len(cols),
         columns |-> cols,
         dtypes |-> [c \in ColNames(cols) |-> SummaryDtype(a, c)],
         missing_counts |-> a.missing_counts,
         numeric_stats |->
             [c \in {d \in ColNames(cols) : SummaryDtype(a, d) = "float"} |->
                 [count |-> a.numeric_counts[c],
                  mean |-> <<a.numeric_sums[c], a.numeric_counts[c]>>,
                  min |-> a.numeric_mins[c][1],
                  max |-> a.numeric_maxs[c][1]]]]

\* The row lists of up to n rows that fit the header.
RECURSIVE RowLists(_, _)
RowLists(cols, n) ==
    IF n = 0 THEN {<<>>}
    ELSE LET shorter == RowLists(cols, n - 1)
         IN  shorter \cup
                 {Append(rs, r) : rs \in {l \in shorter : Len(l) = n - 1},
                                  r \in {q \in Rows : Len(q) <= Len(cols)}}

SummarizeInit ==
    /\ sum_pc = "ready"
    /\ sum_columns \in Headers
    /\ sum_rows \in RowLists(sum_columns, MaxSummaryRows)
    /\ data_summary = <<>>

\* One call of summarize_reader(rows, columns).
SummarizeReader ==
    /\ sum_pc = "ready"
    /\ sum_pc' = "done"
    /\ data_summary' = summarize_reader(sum_rows, sum_columns)
    /\ UNCHANGED <<sum_columns, sum_rows>>
    /\ UNCHANGED notSummary

\* ============================================================== comparator
\* compare.compare_csv_texts and the lineage store of versioning.py it
\* writes.  A CSV text is [header, rows]: its first line and the following
\* lines, each a sequence of cells.
\* num_bins of _make_bins (compare.py:95)
NUM_BINS == 10

CmpHeaders == {<<<<"c">>, <<"n">>>>}
CmpRows == {<<<<"s">>, <<"1">>>>, <<<<"b">>, <<"2">>>>, <<<<"s">>, <<>>>>}

RECURSIVE SeqsUpTo(_, _)
SeqsUpTo(S, n) ==
    IF n = 0 THEN {<<>>}
    ELSE LET shorter == SeqsUpTo(S, n - 1)
         IN  shorter \cup {Append(q, x) : q \in shorter, x \in S}

CsvTexts == [header : CmpHeaders, rows : SeqsUpTo(CmpRows, MaxTextRows)]

\* _read_csv_text: (fieldnames, rows as dicts with None replaced by '')
read_csv_text(text) ==
    [cols |-> text.header,
     rows |-> [i \in 1..Len(text.rows) |->
                  LET d == DictRow(text.header, text.rows[i])
                  IN  [c \in DOMAIN d |-> IF d[c] = None THEN <<>> ELSE d[c]]]]

\* _safe_float (nan and inf are not among the modelled cells)
safe_float(value) == ParseFloat(Strip(value))

\* row.get(col, '')
RowGet(row, col) == IF col \in DOMAIN row THEN row[col] ELSE <<>>

\* _is_numeric_column
is_numeric_column(before_rows, after_rows, col) ==
    LET rows == before_rows \o after_rows
        raws == {Strip(RowGet(rows[i], col)) : i \in 1..Len(rows)} \ {<<>>}
    IN  raws # {} /\ \A raw \in raws : safe_float(raw) # NoFloat

SetMin(S) == CHOOSE x \in S : \A y \in S : x <= y
SetMax(S) == CHOOSE x \in S : \A y \in S : x >= y

\* _make_bins: the edges, times 2 * NUM_BINS (so that v - 0.5 and
\* v_min + step * i are integers)
make_bins(values) ==
    LET v_min == SetMin(values)
        v_max == SetMax(values)
    IN  IF v_min = v_max
        THEN <<2 * NUM_BINS * v_min - NUM_BINS, 2 * NUM_BINS * v_max + NUM_BINS>>
        ELSE [i \in 1..(NUM_BINS + 1) |->
                 IF i <= NUM_BINS
                 THEN 2 * NUM_BINS * v_min + 2 * (v_max - v_min) * (i - 1)
                 ELSE 2 * NUM_BINS * v_max]

InBin(bins, i, val) ==
    \/ (i < Len(bins) - 1 /\ bins[i] <= val /\ val < bins[i + 1])
    \/ (i = Len(bins) - 1 /\ bins[i] <= val /\ val <= bins[i + 1])

\* _numeric_distribution: a value counts in the first bin that holds it
numeric_distribution(rows, col, bins) ==
    [i \in 1..(Len(bins) - 1) |->
        Cardinality({r \in 1..Len(rows) :
            LET val == safe_float(RowGet(rows[r], col))
            IN  /\ val # NoFloat
                /\ InBin(bins, i, 2 * NUM_BINS * val[1])
                /\ \A j \in 1..(i - 1) : ~InBin(bins, j, 2 * NUM_BINS * val[1])})]

\* The order of sorted() on the modelled texts.
TextOrder ==
    <<<<>>, <<"1">>, <<"2">>, <<"a">>, <<"b">>, <<"c">>, <<"d">>, <<"m">>, <<"n">>,
      <<"s">>>>
TextRank(t) == CHOOSE i \in 1..Len(TextOrder) : TextOrder[i] = t

\* sorted(set): a set of texts as the ascending sequence
RECURSIVE SortedTexts(_)
SortedTexts(S) ==
    IF S = {} THEN <<>>
    ELSE LET least == CHOOSE x \in S : \A y \in S : TextRank(x) <= TextRank(y)
         IN  <<least>> \o SortedTexts(S \ {least})

\* _categorical_distribution
categorical_distribution(rows, col, categories) ==
    [i \in 1..Len(categories) |->
        Cardinality({r \in 1..Len(rows) : Strip(RowGet(rows[r], col)) = categories[i]})]

RECURSIVE SeqSum(_)
SeqSum(q) == IF q = <<>> THEN 0 ELSE Head(q) + SeqSum(Tail(q))

RECURSIVE Gcd(_, _)
Gcd(x, y) == IF y = 0 THEN x ELSE Gcd(y, x % y)

Abs(x) == IF x < 0 THEN -x ELSE x
Sign(n) == IF n > 0 THEN 1 ELSE IF n < 0 THEN -1 ELSE 0

\* Exact fractions <<numerator, denominator>>, denominator > 0, in lowest terms.
Frac(n, d) == LET g == Gcd(Abs(n), d) IN <<n \div g, d \div g>>
FracAdd(x, y) == Frac(x[1] * y[2] + y[1] * x[2], x[2] * y[2])
FracSub(x, y) == Frac(x[1] * y[2] - y[1] * x[2], x[2] * y[2])
FracHalf(x) == Frac(x[1], 2 * x[2])

\* The floats of compare.py, exactly: per_eps / EPS + plain + eps * EPS with
\* fraction coefficients, EPS = 1e-9 (compare.py:13).  The coefficients of the
\* modelled inputs are far below 1 / EPS, so the sign of a number is the sign
\* of its first non-zero coefficient.
Num(per_eps, plain, eps) == [per_eps |-> per_eps, plain |-> plain, eps |-> eps]
Plain(fraction) == Num(<<0, 1>>, fraction, <<0, 1>>)
Zero == Plain(<<0, 1>>)
EPS == Num(<<0, 1>>, <<0, 1>>, <<1, 1>>)

NumAdd(x, y) ==
    Num(FracAdd(x.per_eps, y.per_eps), FracAdd(x.plain, y.plain), FracAdd(x.eps, y.eps))
NumSub(x, y) ==
    Num(FracSub(x.per_eps, y.per_eps), FracSub(x.plain, y.plain), FracSub(x.eps, y.eps))
NumHalf(x) == Num(FracHalf(x.per_eps), FracHalf(x.plain), FracHalf(x.eps))
NumSign(x) ==
    IF x.per_eps[1] # 0 THEN Sign(x.per_eps[1])
    ELSE IF x.plain[1] # 0 THEN Sign(x.plain[1])
    ELSE Sign(x.eps[1])
NumMax(x, y) == IF NumSign(NumSub(x, y)) >= 0 THEN x ELSE y

RECURSIVE NumSum(_)
NumSum(q) == IF q = <<>> THEN Zero ELSE NumAdd(Head(q), NumSum(Tail(q)))

\* _normalize_probs
normalize_probs(values) ==
    LET total == SeqSum(values)
    IN  IF total <= 0
        THEN [i \in 1..Len(values) |-> Plain(Frac(1, Len(values)))]
        ELSE [i \in 1..Len(values) |-> NumMax(Plain(Frac(values[i], total)), EPS)]

\* The sign of a sum, from the signs of its terms: 2 when terms of both signs
\* occur (the sign of the sum is then not decided by the signs alone).
SumSign(signs) ==
    IF \A i \in 1..Len(signs) : signs[i] = 0 THEN 0
    ELSE IF \A i \in 1..Len(signs) : signs[i] \in {0, 1} THEN 1
    ELSE IF \A i \in 1..Len(signs) : signs[i] \in {0, -1} THEN -1
    ELSE 2

\* The sign of math.log(x / y) for x, y > 0
LogRatioSign(x, y) == NumSign(NumSub(x, y))

\* _psi, as its sign: each term is (a - b) * log(a / b)
psi(before_prob, after_prob) ==
    SumSign([i \in 1..Min(Len(before_prob), Len(after_prob)) |->
                NumSign(NumSub(after_prob[i], before_prob[i]))
                    * LogRatioSign(after_prob[i], before_prob[i])])

\* _kl inside _js_divergence, as its sign: each term is pi * log(pi / qi)
kl(p, q) ==
    SumSign([i \in 1..Min(Len(p), Len(q)) |-> NumSign(p[i]) * LogRatioSign(p[i], q[i])])

\* _js_divergence, as its sign
js_divergence(before_prob, after_prob) ==
    LET m == [i \in 1..Min(Len(before_prob), Len(after_prob)) |->
                 NumHalf(NumAdd(before_prob[i], after_prob[i]))]
    IN  SumSign(<<kl(before_prob, m), kl(after_prob, m)>>)

\* One term of _chi_square: ((observed - expected) ** 2) / expected.  An
\* expected count floored at EPS gives
\* (observed - EPS)^2 / EPS = observed^2 / EPS - 2 * observed + EPS.
ChiTerm(expected_raw, observed, before_total, after_total) ==
    LET expected == NumMax(Plain(Frac(expected_raw * after_total, before_total)), EPS)
        diff == FracSub(<<observed, 1>>, expected.plain)
    IN  IF expected = EPS
        THEN Num(<<observed * observed, 1>>, <<-2 * observed, 1>>, <<1, 1>>)
        ELSE Plain(Frac(diff[1] * diff[1] * expected.plain[2],
                        diff[2] * diff[2] * expected.plain[1]))

\* _chi_square
chi_square(before_counts, after_counts) ==
    LET before_total == SeqSum(before_counts)
        after_total == SeqSum(after_counts)
    IN  IF before_total = 0 \/ after_total = 0 THEN Zero
        ELSE NumSum([i \in 1..Min(Len(before_counts), Len(after_counts)) |->
                        ChiTerm(before_counts[i], after_counts[i],
                                before_total, after_total)])

\* --------------------------------------------------- the metrics in floats
\* Python floats are binary64: 53 significant bits, every operation rounded
\* to the nearest float, ties to even.  Here a float has FLOAT_MANT_BITS
\* significant bits and is the pair m * 2^e with
\* 2^(FLOAT_MANT_BITS-1) <= |m| < 2^FLOAT_MANT_BITS, or m = e = 0.
FLOAT_MANT_BITS == 6
MaxCount == 3
MaxBuckets == 2

RECURSIVE Pow2(_)
Pow2(n) == IF n = 0 THEN 1 ELSE 2 * Pow2(n - 1)

Float(m, e) == [m |-> m, e |-> e]
FloatZero == Float(0, 0)

\* The float nearest to (a / d) * 2^e, for a, d > 0.
RECURSIVE RoundPos(_, _, _)
RoundPos(a, d, e) ==
    IF a \div Pow2(FLOAT_MANT_BITS) >= d THEN RoundPos(a, 2 * d, e + 1)
    ELSE IF a \div Pow2(FLOAT_MANT_BITS - 1) < d
    THEN IF d % 2 = 0 THEN RoundPos(a, d \div 2, e - 1)
         ELSE RoundPos(2 * a, d, e - 1)
    ELSE LET q == a \div d
             r == a % d
             m == IF 2 * r > d \/ (2 * r = d /\ q % 2 = 1) THEN q + 1 ELSE q
         IN  IF m = Pow2(FLOAT_MANT_BITS)
             THEN Float(Pow2(FLOAT_MANT_BITS - 1), e + 1)
             ELSE Float(m, e)

\* The float nearest to (n / d) * 2^e, for d > 0.
RoundToFloat(n, d, e) ==
    IF n = 0 THEN FloatZero
    ELSE LET f == RoundPos(Abs(n), d, e)
         IN  IF n < 0 THEN Float(-f.m, f.e) ELSE f

\* x * y, x / y, x + y, x - y and x < y on floats
FloatMul(x, y) == RoundToFloat(x.m * y.m, 1, x.e + y.e)
FloatDiv(x, y) ==
    RoundToFloat(IF y.m < 0 THEN -x.m ELSE x.m, Abs(y.m), x.e - y.e)
FloatAdd(x, y) ==
    IF x.m = 0 THEN y
    ELSE IF y.m = 0 THEN x
    ELSE IF x.e - y.e > FLOAT_MANT_BITS + 1 THEN x
    ELSE IF y.e - x.e > FLOAT_MANT_BITS + 1 THEN y
    ELSE LET e == Min(x.e, y.e)
         IN  RoundToFloat(x.m * Pow2(x.e - e) + y.m * Pow2(y.e - e), 1, e)
FloatNeg(x) == Float(-x.m, x.e)
FloatSub(x, y) == FloatAdd(x, FloatNeg(y))
FloatLess(x, y) == FloatSub(x, y).m < 0
FloatMax(x, y) == IF FloatLess(x, y) THEN y ELSE x
FloatOfInt(n) == RoundToFloat(n, 1, 0)

\* ln(n / d) for n, d > 0, times LN_SCALE
LnScaled(n, d) ==
    IF n = d THEN 0
    ELSE IF n > d
    THEN LET t == ((n - d) * LN_SCALE) \div (n + d) IN 2 * AtanhSeries(t, t, 1)
    ELSE LET t == ((d - n) * LN_SCALE) \div (n + d) IN -2 * AtanhSeries(t, t, 1)

\* math.log(x) for a float x > 0
FloatLog(x) ==
    IF x.e >= 0 THEN RoundToFloat(LnScaled(x.m * Pow2(x.e), 1), LN_SCALE, 0)
    ELSE RoundToFloat(LnScaled(x.m, Pow2(-x.e)), LN_SCALE, 0)

\* EPS = 1e-9 (compare.py:13) and the literal 0.5
EPS_float == RoundToFloat(1, 1000000000, 0)
Half_float == RoundToFloat(1, 2, 0)

\* sum() of a list of floats: from 0, left to right
RECURSIVE FloatSum(_, _)
FloatSum(terms, acc) ==
    IF terms = <<>> THEN acc ELSE FloatSum(Tail(terms), FloatAdd(acc, Head(terms)))

\* _normalize_probs
normalize_probs_float(values) ==
    LET total == SeqSum(values)
    IN  IF total <= 0
        THEN [i \in 1..Len(values) |-> RoundToFloat(1, Len(values), 0)]
        ELSE [i \in 1..Len(values) |->
                 FloatMax(RoundToFloat(values[i], total, 0), EPS_float)]

\* _psi
psi_float(before_prob, after_prob) ==
    FloatSum([i \in 1..Min(Len(before_prob), Len(after_prob)) |->
                 FloatMul(FloatSub(after_prob[i], before_prob[i]),
                          FloatLog(FloatDiv(after_prob[i], before_prob[i])))],
             FloatZero)

\* _kl inside _js_divergence
kl_float(p, q) ==
    FloatSum([i \in 1..Min(Len(p), Len(q)) |->
                 FloatMul(p[i], FloatLog(FloatDiv(p[i], q[i])))],
             FloatZero)

\* _js_divergence
js_divergence_float(before_prob, after_prob) ==
    LET m == [i \in 1..Min(Len(before_prob), Len(after_prob)) |->
                 FloatDiv(FloatAdd(before_prob[i], after_prob[i]), FloatOfInt(2))]
    IN  FloatAdd(FloatMul(Half_float, kl_float(before_prob, m)),
                 FloatMul(Half_float, kl_float(after_prob, m)))

\* The loop of _chi_square from bucket i on.
RECURSIVE ChiLoop(_, _, _, _, _, _)
ChiLoop(before, after, before_total, after_total, i, score) ==
    IF i > Min(Len(before), Len(after)) THEN score
    ELSE LET expected ==
                 FloatMax(FloatMul(RoundToFloat(before[i], before_total, 0),
                                   FloatOfInt(after_total)),
                          EPS_float)
             diff == FloatSub(FloatOfInt(after[i]), expected)
         IN  ChiLoop(before, after, before_total, after_total, i + 1,
                     FloatAdd(score, FloatDiv(FloatMul(diff, diff), expected)))

\* _chi_square
chi_square_float(before, after) ==
    LET before_total == SeqSum(before)
        after_total == SeqSum(after)
    IN  IF before_total = 0 \/ after_total = 0 THEN FloatZero
        ELSE ChiLoop(before, after, before_total, after_total, 1, FloatZero)

\* The count lists of n buckets, every bucket non-empty in both files.
CountLists(n) == [1..n -> 1..MaxCount]

MetricInit ==
    /\ met_pc = "ready"
    /\ \E n \in 1..MaxBuckets :
        met_before \in CountLists(n) /\ met_after \in CountLists(n)
    /\ met_result = <<>>

\* The metrics of one column (compare.py:134-144).
ComputeMetrics ==
    /\ met_pc = "ready"
    /\ met_pc' = "done"
    /\ LET before_prob == normalize_probs_float(met_before)
           after_prob == normalize_probs_float(met_after)
       IN  met_result' =
               [psi |-> psi_float(before_prob, after_prob),
                js_divergence |-> js_divergence_float(before_prob, after_prob),
                chi_square |-> chi_square_float(met_before, met_after)]
    /\ UNCHANGED <<met_before, met_after>>
    /\ UNCHANGED notMetric

\* versioning.build_dataset_fingerprint.  A line is blank when it is one cell
\* of white space; csv_text.strip() strips the front of the first line that
\* is left, rstrip() the last cell of each line.  The sha256 digest is the
\* payload itself (a digest without collisions).
NonBlankLines(text) ==
    LET lines == <<text.header>> \o text.rows
        keep == SelectSeq(lines, LAMBDA l : ~(Len(l) = 0 \/ (Len(l) = 1 /\ Strip(l[1]) = <<>>)))
    IN  [i \in 1..Len(keep) |->
            [j \in 1..Len(keep[i]) |->
                LET cell == IF i = 1 /\ j = 1 THEN LStrip(keep[i][j]) ELSE keep[i][j]
                IN  IF j = Len(keep[i]) THEN RStrip(cell) ELSE cell]]

build_dataset_fingerprint(csv_text, source_name, meta) ==
    LET lines == NonBlankLines(csv_text)
        header == IF lines # <<>> THEN lines[1] ELSE <<>>
        n_rows == Max(Len(lines) - 1, 0)
    IN  [fingerprint |-> [source_name |-> source_name, columns |-> header,
                          row_count |-> n_rows, csv_text |-> lines,
                          meta |-> meta],
         row_count |-> n_rows,
         column_count |-> Len(header),
         columns |-> header]

\* fingerprint[:12]
Prefix12(fingerprint) == sha256_prefix[fingerprint]

\* versioning.save_lineage_link: the path written and its record
LineagePath(before, after) ==
    <<Prefix12(before.fingerprint), Prefix12(after.fingerprint)>>

\* The record with the columns of the before side as its context.
LineageRecord_before_columns(before, after, src_before, src_after, context, now) ==
    [created_at |-> now,
     before |-> [source_name |-> src_before, fingerprint |-> before.fingerprint,
                 row_count |-> before.row_count,
                 column_count |-> before.column_count, columns |-> before.columns],
     after |-> [source_name |-> src_after, fingerprint |-> after.fingerprint,
                row_count |-> after.row_count,
                column_count |-> after.column_count, columns |-> after.columns],
     context |-> [common_columns |-> before.columns]]

LineageRecord(before, after, src_before, src_after, context, now) ==
    [created_at |-> now,
     before |-> [source_name |-> src_before, fingerprint |-> before.fingerprint,
                 row_count |-> before.row_count,
                 column_count |-> before.column_count, columns |-> before.columns],
     after |-> [source_name |-> src_after, fingerprint |-> after.fingerprint,
                row_count |-> after.row_count,
                column_count |-> after.column_count, columns |-> after.columns],
     context |-> context]

\* metrics[col] of compare_csv_texts (compare.py:110-142); <<>> when the
\* column is skipped
ColumnMetrics(before_rows, after_rows, col) ==
    LET rows == before_rows \o after_rows
        numeric == is_numeric_column(before_rows, after_rows, col)
        all_values ==
            {safe_float(RowGet(rows[i], col))[1] :
                i \in {k \in 1..Len(rows) : safe_float(RowGet(rows[k], col)) # NoFloat}}
        bins == make_bins(all_values)
        categories ==
            SortedTexts({Strip(RowGet(rows[i], col)) : i \in 1..Len(rows)})
        before_counts ==
            IF numeric THEN numeric_distribution(before_rows, col, bins)
            ELSE categorical_distribution(before_rows, col, categories)
        after_counts ==
            IF numeric THEN numeric_distribution(after_rows, col, bins)
            ELSE categorical_distribution(after_rows, col, categories)
        before_prob == normalize_probs(before_counts)
        after_prob == normalize_probs(after_counts)
    IN  IF (numeric /\ all_values = {}) \/ (~numeric /\ categories = <<>>) THEN <<>>
        ELSE [type |-> IF numeric THEN "numeric" ELSE "categorical",
              before_counts |-> before_counts,
              after_counts |-> after_counts,
              psi |-> psi(before_prob, after_prob),
              js_divergence |-> js_divergence(before_prob, after_prob),
              chi_square |-> chi_square(before_counts, after_counts)]

\* compare_csv_texts
compare_csv_texts(before_text, after_text, src_before, src_after, now) ==
    LET before == read_csv_text(before_text)
        after == read_csv_text(after_text)
        common == ColNames(before.cols) \cap ColNames(after.cols)
        common_cols == SortedTexts(common)
        all == [c \in common |-> ColumnMetrics(before.rows, after.rows, c)]
        before_version == build_dataset_fingerprint(before_text, src_before, <<>>)
        after_version == build_dataset_fingerprint(after_text, src_after, <<>>)
    IN  [common_columns |-> common_cols,
         column_metrics |-> [c \in {d \in common : all[d] # <<>>} |-> all[c]],
         before |-> [source_name |-> src_before,
                     fingerprint |-> before_version.fingerprint,
                     row_count |-> before_version.row_count,
                     column_count |-> before_version.column_count],
         after |-> [source_name |-> src_after,
                    fingerprint |-> after_version.fingerprint,
                    row_count |-> after_version.row_count,
                    column_count |-> after_version.column_count],
         lineage_path |-> LineagePath(before_version, after_version),
         lineage_record |->
             LineageRecord(before_version, after_version, src_before, src_after,
                           [common_columns |-> common_cols], now)]

\* The digests build_dataset_fingerprint gives the texts of a set under the
\* default source names.
Fingerprints(texts) ==
    {build_dataset_fingerprint(t, src, <<>>).fingerprint :
        t \in texts, src \in {"before.csv", "after.csv"}}

\* One call on an empty lineage store; no two digests of the modelled texts
\* start with the same 12 characters.
CompareInit ==
    /\ cmp_pc = "ready"
    /\ before_csv_text = <<>>
    /\ after_csv_text = <<>>
    /\ before_source = "before.csv"
    /\ after_source = "after.csv"
    /\ cmp_result = <<>>
    /\ lineage_files = <<>>
    /\ utc_now = 0
    /\ sha256_prefix = [fp \in Fingerprints(CsvTexts) |-> fp]
    /\ compare_calls = 0

\* The call of compare_csv_texts, with the default source names.  The
\* returned dict is cmp_result without its lineage_record field.
CompareCall ==
    /\ cmp_pc = "ready"
    /\ cmp_pc' = "returned"
    /\ \E b \in CsvTexts, a \in CsvTexts, now \in utc_now..MaxClock :
        /\ before_csv_text' = b
        /\ after_csv_text' = a
        /\ utc_now' = now
        /\ cmp_result' = compare_csv_texts(b, a, before_source, after_source, now)
    /\ lineage_files' =
           [p \in DOMAIN lineage_files \cup {cmp_result'.lineage_path} |->
               IF p = cmp_result'.lineage_path THEN cmp_result'.lineage_record
               ELSE lineage_files[p]]
    /\ compare_calls' = compare_calls + 1
    /\ UNCHANGED <<before_source, after_source, sha256_prefix>>
    /\ UNCHANGED notCompare

\* -------------------------------------------------------------- fingerprint
\* Texts of one column: a row, the row with a trailing blank in its cell, a
\* header with a leading blank, a second row of one blank, another cell
\* value, another column name.
FpTexts ==
    {[header |-> <<<<"a">>>>, rows |-> <<<<<<"1">>>>>>],
     [header |-> <<<<"a">>>>, rows |-> <<<<<<"1", " ">>>>>>],
     [header |-> <<<<" ", "a">>>>, rows |-> <<<<<<"1">>>>>>],
     [header |-> <<<<"a">>>>, rows |-> <<<<<<"1">>>>, <<<<" ">>>>>>],
     [header |-> <<<<"a">>>>, rows |-> <<<<<<"2">>>>>>],
     [header |-> <<<<"b">>>>, rows |-> <<<<<<"1">>>>>>]}
FpInputs == [csv_text : FpTexts, source_name : {"before.csv", "after.csv"}]

FpInit ==
    /\ fp_pc = "ready"
    /\ fp_inputs \in [1..2 -> FpInputs]
    /\ fp_versions = <<>>

\* build_dataset_fingerprint called on each input
FingerprintBoth ==
    /\ fp_pc = "ready"
    /\ fp_versions' =
           [i \in 1..2 |->
               build_dataset_fingerprint(fp_inputs[i].csv_text,
                                         fp_inputs[i].source_name, <<>>)]
    /\ fp_pc' = "done"
    /\ UNCHANGED fp_inputs
    /\ UNCHANGED notFp

\* ------------------------------------------------------------ lineage store
\* Texts compared one call after the other on one lineage store: rows of two
\* columns, a header without rows, and a text with other columns.
LineageTexts ==
    {[header |-> <<<<"c">>, <<"n">>>>, rows |-> <<<<<<"s">>, <<"1">>>>>>],
     [header |-> <<<<"c">>, <<"n">>>>, rows |-> <<>>],
     [header |-> <<<<"d">>, <<"m">>>>, rows |-> <<<<<<"s">>, <<"2">>>>>>]}

\* The first 12 of the 64 characters of a digest: a function of the digest
\* with fewer values than there are digests.
PrefixValues == {"fc889f608b07", "53f5e4ab3040"}

LineageInit ==
    /\ cmp_pc = "ready"
    /\ before_csv_text = <<>>
    /\ after_csv_text = <<>>
    /\ before_source = "before.csv"
    /\ after_source = "after.csv"
    /\ cmp_result = <<>>
    /\ lineage_files = <<>>
    /\ utc_now = 0
    /\ sha256_prefix \in [Fingerprints(LineageTexts) -> PrefixValues]
    /\ compare_calls = 0

\* A call of compare_csv_texts, the first or a later one, with the default
\* source names; save_lineage_link writes the file of the path (write_text).
LineageCall ==
    /\ compare_calls < MaxCompareCalls
    /\ cmp_pc' = "returned"
    /\ \E b \in LineageTexts, a \in LineageTexts, now \in utc_now..MaxClock :
        /\ before_csv_text' = b
        /\ after_csv_text' = a
        /\ utc_now' = now
        /\ cmp_result' = compare_csv_texts(b, a, before_source, after_source, now)
    /\ lineage_files' =
           [p \in DOMAIN lineage_files \cup {cmp_result'.lineage_path} |->
               IF p = cmp_result'.lineage_path THEN cmp_result'.lineage_record
               ELSE lineage_files[p]]
    /\ compare_calls' = compare_calls + 1
    /\ UNCHANGED <<before_source, after_source, sha256_prefix>>
    /\ UNCHANGED notCompare

\* ================================================================ analyzer
\* multi_csv.analyze_multiple_csv.  A path is a number; a task is one call of
\* _load_or_profile_file, run as one step (its steps on the cache directory
\* are interleaved in the cache section).
Paths == 1..MaxPaths

NoException == [name |-> "none", path |-> 0]
Raise(name, path) == [name |-> name, path |-> path]
Result(value) == [kind |-> "result", value |-> value, exc |-> NoException]
Exception(exc) == [kind |-> "exception", value |-> <<>>, exc |-> exc]

\* The dict _profile_csv_stream returns for the file at a path.
SourceProfile(path) ==
    [summary |-> path, column_profiles |-> path, group_target_ratio |-> path]

\* A scan that returns a profile for a file without header line.
profile_csv_stream_no_raise(path, kind) == Result(SourceProfile(path))

\* _profile_csv_stream as a whole: the profile, or ValueError when the file
\* has no header line.
profile_csv_stream(path, kind) ==
    IF kind = "headerless" THEN Exception(Raise("ValueError", path))
    ELSE Result(SourceProfile(path))

\* json.load of a cache entry file: "truncated" is not JSON, "not_profile" is
\* the JSON object {}.
json_load(path, entry) ==
    IF entry = "profile" THEN Result(SourceProfile(path))
    ELSE IF entry = "not_profile" THEN Result(<<>>)
    ELSE Exception(Raise("JSONDecodeError", path))

\* _record_cache_access, _enforce_cache_limits: they replace the index file
index_update(path, writable) ==
    IF writable THEN NoException ELSE Raise("OSError", path)

\* _load_cached_profile: [hit, value]; every exception gives a miss
load_cached_profile(path, entry, writable) ==
    IF entry = "absent" THEN [hit |-> FALSE, value |-> <<>>]
    ELSE IF json_load(path, entry).kind = "exception"
            \/ index_update(path, writable) # NoException
         THEN [hit |-> FALSE, value |-> <<>>]
    ELSE [hit |-> TRUE, value |-> json_load(path, entry).value]

\* _save_cached_profile: the entry file is written, then the index updated
save_cached_profile(path, writable) ==
    [entry |-> "profile", exc |-> index_update(path, writable)]

\* _load_or_profile_file: [outcome, entry (the cache entry file afterwards),
\* scanned (whether the source was read)]
load_or_profile_file(path, kind, entry, cached, writable) ==
    LET loaded == load_cached_profile(path, entry, writable)
        profiled == profile_csv_stream(path, kind)
        saved == save_cached_profile(path, writable)
    IN  IF cached /\ loaded.hit
            THEN [outcome |-> Result(loaded.value), entry |-> entry, scanned |-> FALSE]
        ELSE IF profiled.kind = "exception" \/ ~cached
            THEN [outcome |-> profiled, entry |-> entry, scanned |-> TRUE]
        ELSE IF saved.exc # NoException
            THEN [outcome |-> Exception(saved.exc), entry |-> saved.entry,
                  scanned |-> TRUE]
        ELSE [outcome |-> profiled, entry |-> saved.entry, scanned |-> TRUE]

\* worker_count of analyze_multiple_csv; max_workers 0 stands for None
worker_count(workers, paths) ==
    IF workers > 0 THEN workers ELSE Min(4, Len(paths))

\* The iterator of concurrent.futures.as_completed instead: any future not
\* yet taken.
map_next_as_completed(taken, n) == {i \in 1..n : i \notin taken}

\* The future whose result the iterator of executor.map yields next: the
\* first one not yet taken, in submission order.
map_next(taken, n) ==
    {i \in 1..n : i \notin taken /\ \A j \in 1..(i - 1) : j \in taken}

FileKinds ==
    {k \in [source : {"csv", "headerless"},
            entry : {"absent", "profile", "truncated", "not_profile"}] :
        k.source = "headerless" => k.entry # "profile"}

AnalyzeInit ==
    /\ an_pc = "start"
    /\ \E n \in 0..MaxPaths : csv_paths = [i \in 1..n |-> i]
    /\ max_workers \in 0..MaxWorkers
    /\ use_cache \in BOOLEAN
    /\ index_writable \in BOOLEAN
    /\ \E kinds \in [Paths -> FileKinds] :
        /\ source_kind = [p \in Paths |-> kinds[p].source]
        /\ cache_entry = [p \in Paths |-> kinds[p].entry]
    /\ futures = <<>>
    /\ outcomes = <<>>
    /\ collected = {}
    /\ profiled_list = <<>>
    /\ files = <<>>
    /\ an_exception = NoException
    /\ finish_order = <<>>
    /\ scanned = {}

\* Lines 503-510: the argument checks and the choice between the serial loop
\* and the pool; executor.map submits every task at once.
AnalyzeStart ==
    /\ an_pc = "start"
    /\ IF csv_paths = <<>>
          THEN /\ an_pc' = "raised"
               /\ an_exception' = Raise("ValueError", 0)
               /\ UNCHANGED futures
          ELSE /\ UNCHANGED an_exception
               /\ IF worker_count(max_workers, csv_paths) = 1 \/ Len(csv_paths) = 1
                     THEN an_pc' = "serial" /\ UNCHANGED futures
                     ELSE /\ an_pc' = "pool"
                          /\ futures' = [i \in 1..Len(csv_paths) |-> "pending"]
    /\ outcomes' = [i \in 1..Len(csv_paths) |-> Result(<<>>)]
    /\ UNCHANGED <<csv_paths, max_workers, use_cache, source_kind, cache_entry,
                   index_writable, collected, profiled_list, files,
                   finish_order, scanned>>
    /\ UNCHANGED notAnalyze

\* One iteration of the list comprehension of lines 512-516.
SerialStep ==
    /\ an_pc = "serial"
    /\ LET i == Len(profiled_list) + 1
           path == csv_paths[i]
           done == load_or_profile_file(path, source_kind[path], cache_entry[path],
                                        use_cache, index_writable)
       IN  /\ cache_entry' = [cache_entry EXCEPT ![path] = done.entry]
           /\ outcomes' = [outcomes EXCEPT ![i] = done.outcome]
           /\ finish_order' = Append(finish_order, i)
           /\ scanned' = IF done.scanned THEN scanned \cup {i} ELSE scanned
           /\ IF done.outcome.kind = "exception"
                 THEN /\ an_pc' = "raised"
                      /\ an_exception' = done.outcome.exc
                      /\ UNCHANGED profiled_list
                 ELSE /\ profiled_list' = Append(profiled_list, done.outcome.value)
                      /\ an_pc' = IF i = Len(csv_paths) THEN "assemble" ELSE "serial"
                      /\ UNCHANGED an_exception
    /\ UNCHANGED <<csv_paths, max_workers, use_cache, source_kind, index_writable,
                   futures, collected, files>>
    /\ UNCHANGED notAnalyze

\* A pool worker takes the oldest pending task off the queue.
WorkerStart ==
    /\ an_pc \in {"pool", "shutdown"}
    /\ \E i \in 1..Len(futures) :
        /\ futures[i] = "pending"
        /\ \A j \in 1..(i - 1) : futures[j] # "pending"
        /\ Cardinality({j \in 1..Len(futures) : futures[j] = "running"})
               < worker_count(max_workers, csv_paths)
        /\ futures' = [futures EXCEPT ![i] = "running"]
    /\ UNCHANGED <<an_pc, csv_paths, max_workers, use_cache, source_kind,
                   cache_entry, index_writable, outcomes, collected,
                   profiled_list, files, an_exception, finish_order, scanned>>
    /\ UNCHANGED notAnalyze

\* A running task returns or raises; its future holds the outcome.
WorkerFinish ==
    /\ an_pc \in {"pool", "shutdown"}
    /\ \E i \in 1..Len(futures) :
        /\ futures[i] = "running"
        /\ LET path == csv_paths[i]
               done == load_or_profile_file(path, source_kind[path],
                                            cache_entry[path], use_cache,
                                            index_writable)
           IN  /\ cache_entry' = [cache_entry EXCEPT ![path] = done.entry]
               /\ outcomes' = [outcomes EXCEPT ![i] = done.outcome]
               /\ scanned' = IF done.scanned THEN scanned \cup {i} ELSE scanned
        /\ futures' = [futures EXCEPT ![i] = "finished"]
        /\ finish_order' = Append(finish_order, i)
    /\ UNCHANGED <<an_pc, csv_paths, max_workers, use_cache, source_kind,
                   index_writable, collected, profiled_list, files, an_exception>>
    /\ UNCHANGED notAnalyze

\* list(executor.map(...)): the caller takes the next result.  An exception
\* leaves the iterator, which cancels the futures still pending, and the
\* with block is left.
Collect ==
    /\ an_pc = "pool"
    /\ \E i \in map_next(collected, Len(futures)) :
        /\ futures[i] = "finished"
        /\ collected' = collected \cup {i}
        /\ IF outcomes[i].kind = "exception"
              THEN /\ an_exception' = outcomes[i].exc
                   /\ futures' = [j \in 1..Len(futures) |->
                                     IF futures[j] = "pending" THEN "cancelled"
                                     ELSE futures[j]]
                   /\ an_pc' = "shutdown"
                   /\ UNCHANGED profiled_list
              ELSE /\ profiled_list' = Append(profiled_list, outcomes[i].value)
                   /\ an_pc' = IF collected' = 1..Len(futures) THEN "shutdown"
                               ELSE "pool"
                   /\ UNCHANGED <<an_exception, futures>>
    /\ UNCHANGED <<csv_paths, max_workers, use_cache, source_kind, cache_entry,
                   index_writable, outcomes, files, finish_order, scanned>>
    /\ UNCHANGED notAnalyze

\* ThreadPoolExecutor.__exit__: shutdown(wait=True), then the exception, if
\* any, reaches the caller.
Shutdown ==
    /\ an_pc = "shutdown"
    /\ \A i \in 1..Len(futures) : futures[i] \notin {"pending", "running"}
    /\ an_pc' = IF an_exception # NoException THEN "raised" ELSE "assemble"
    /\ UNCHANGED <<csv_paths, max_workers, use_cache, source_kind, cache_entry,
                   index_writable, futures, outcomes, collected, profiled_list,
                   files, an_exception, finish_order, scanned>>
    /\ UNCHANGED notAnalyze

\* Lines 526-560: the zip loop reads profiled['summary'],
\* profiled['column_profiles'] and profiled['group_target_ratio'].
Assemble ==
    /\ an_pc = "assemble"
    /\ LET n == Min(Len(csv_paths), Len(profiled_list))
           bad == {i \in 1..n :
                      ~({"summary", "column_profiles", "group_target_ratio"}
                            \subseteq DOMAIN profiled_list[i])}
       IN  IF bad # {}
              THEN /\ an_pc' = "raised"
                   /\ an_exception' = Raise("KeyError", csv_paths[CHOOSE i \in bad : \A j \in bad : i <= j])
                   /\ UNCHANGED files
              ELSE /\ an_pc' = "returned"
                   /\ files' = [i \in 1..n |->
                                   [path |-> csv_paths[i],
                                    summary |-> profiled_list[i].summary,
                                    column_profiles |-> profiled_list[i].column_profiles,
                                    group_target_ratio |->
                                        profiled_list[i].group_target_ratio]]
                   /\ UNCHANGED an_exception
    /\ UNCHANGED <<csv_paths, max_workers, use_cache, source_kind, cache_entry,
                   index_writable, futures, outcomes, collected, profiled_list,
                   finish_order, scanned>>
    /\ UNCHANGED notAnalyze

\* =================================================================== cache
\* The cache directory under concurrent calls of _load_or_profile_file, one
\* call per thread.  A file is an inode: its chunks written so far and its
\* mtime; a directory entry links a name to an inode, and a thread writes
\* through the inode it opened, whatever name the inode has by then.
Threads == 1..NumThreads
\* datetime.utcnow().timestamp() when the clock (seconds since the epoch, what
\* the file system stamps mtimes with) shows now: utcnow() is a naive datetime
\* holding UTC wall time, and timestamp() reads a naive datetime as local
\* time, so the result is off by the UTC offset of the time zone.
UtcOffsets == {-1, 0, 1}
utcnow_timestamp(now) == now - utc_offset
Keys == 1..NumKeys
\* The writes that make up the entry file of a key: the profile of the last
\* key is a small one.
EntryWrites(key) == IF key < NumKeys THEN NumChunks ELSE 1
AllChunks(key) == 1..EntryWrites(key)

\* st_size of an inode
FileSize(ino) == IF ino.chunks = {} THEN 0 ELSE SetMax(ino.chunks)

\* index['entries'], a dict in insertion order
IndexKeys(index) == {index[i].key : i \in 1..Len(index)}
IndexPop(index, key) == SelectSeq(index, LAMBDA e : e.key # key)
IndexSet(index, key, now, size) ==
    LET meta == [key |-> key, last_access |-> now, size_bytes |-> size]
    IN  IF key \in IndexKeys(index)
            THEN [i \in 1..Len(index) |-> IF index[i].key = key THEN meta ELSE index[i]]
        ELSE Append(index, meta)

\* open(path, 'w') on a name linked to inode old (0: no file, a free inode
\* is taken): the inode written, and the inode table after creating or
\* truncating it
InodeIds == 1..(NumKeys + NumThreads)
InUse(i) ==
    \/ \E k \in Keys : dir_entry[k] = i \/ dir_tmp[k] = i
    \/ \E t \in Threads : th[t].handle = i
OpenedInode(old) ==
    IF old = 0
        THEN CHOOSE i \in InodeIds : ~InUse(i) /\ \A j \in 1..(i - 1) : InUse(j)
    ELSE old
OpenForWrite(old, now) ==
    [inodes EXCEPT ![OpenedInode(old)] = [chunks |-> {}, mtime |-> now]]

\* The entries left in the order of the index, the sort of line 410 dropped.
SortedByLastAccess_unsorted(entries) == entries

\* existing_entries.sort(key=last_access), a stable sort
RECURSIVE SortedByLastAccess(_)
SortedByLastAccess(entries) ==
    IF entries = <<>> THEN <<>>
    ELSE LET i == CHOOSE i \in 1..Len(entries) :
                      /\ \A j \in 1..Len(entries) :
                             entries[i].last_access <= entries[j].last_access
                      /\ \A j \in 1..(i - 1) :
                             entries[j].last_access > entries[i].last_access
         IN  <<entries[i]>> \o SortedByLastAccess(RemoveAt(entries, i))

\* The eviction loop of _enforce_cache_limits: the keys removed
RECURSIVE Evicted(_, _)
Evicted(sorted, total_size) ==
    IF sorted = <<>> \/ total_size <= CACHE_MAX_TOTAL_BYTES THEN {}
    ELSE {Head(sorted).key}
             \cup Evicted(Tail(sorted), total_size - Head(sorted).size_bytes)

\* _enforce_cache_limits up to its final _save_cache_index, on the index just
\* loaded: the keys whose files it unlinks and the index it goes on to save.
\* Entries without file are dropped, entries past the TTL removed, the sizes
\* of the others refreshed from stat.
enforce_cache_limits(index, now) ==
    LET present == SelectSeq(index, LAMBDA e : dir_entry[e.key] # 0)
        stale == {present[i].key : i \in
                     {j \in 1..Len(present) :
                         /\ CACHE_ENTRY_TTL_SECONDS > 0
                         /\ now - present[j].last_access > CACHE_ENTRY_TTL_SECONDS}}
        fresh == SelectSeq(present, LAMBDA e : e.key \notin stale)
        existing_entries ==
            [i \in 1..Len(fresh) |->
                [fresh[i] EXCEPT !.size_bytes = FileSize(inodes[dir_entry[fresh[i].key]])]]
        total_size == SeqSum([i \in 1..Len(existing_entries) |->
                                 existing_entries[i].size_bytes])
        evicted == IF CACHE_MAX_TOTAL_BYTES > 0
                      THEN Evicted(SortedByLastAccess(existing_entries), total_size)
                   ELSE {}
    IN  [removed |-> stale \cup evicted,
         index |-> SelectSeq(existing_entries, LAMBDA e : e.key \notin evicted)]

Locals(key) ==
    [pc |-> "start", key |-> key, index |-> <<>>, handle |-> 0, pos |-> 0,
     size |-> 0, age |-> 0, ret |-> "", saw |-> "nothing", outcome |-> "running"]

CacheInit ==
    /\ stream_write \in BOOLEAN
    /\ cache_clock = 0
    /\ dir_entry = [k \in Keys |-> 0]
    /\ dir_tmp = [k \in Keys |-> 0]
    /\ inodes = [i \in InodeIds |-> [chunks |-> {}, mtime |-> 0]]
    /\ index_file = <<>>
    /\ index_tmp = [t \in Threads |-> FALSE]
    /\ \E keys \in [Threads -> Keys] : th = [t \in Threads |-> Locals(keys[t])]
    /\ calls_made = 0
    /\ utc_offset \in UtcOffsets

\* _load_cached_profile, lines 429-440: exists(), stat() and the TTL test on
\* the entry's mtime; an expired entry is removed (_remove_cache_entry: unlink,
\* load the index, pop) and the index saved, and the call goes on as a miss.
Lookup ==
    \E t \in Threads :
        /\ th[t].pc = "start"
        /\ LET key == th[t].key
               ino == dir_entry[key]
           IN  IF ino = 0
                  THEN /\ th' = [th EXCEPT ![t].pc = "save_open"]
                       /\ UNCHANGED <<cache_clock, dir_entry>>
                  ELSE \E now \in cache_clock..MaxTime :
                      /\ cache_clock' = now
                      /\ IF CACHE_ENTRY_TTL_SECONDS > 0
                            /\ utcnow_timestamp(now) - inodes[ino].mtime
                                   > CACHE_ENTRY_TTL_SECONDS
                            THEN /\ dir_entry' = [dir_entry EXCEPT ![key] = 0]
                                 /\ th' = [th EXCEPT ![t].pc = "idx_write",
                                                     ![t].ret = "save_open",
                                                     ![t].age = now - inodes[ino].mtime,
                                                     ![t].index = IndexPop(index_file, key)]
                            ELSE /\ th' = [th EXCEPT ![t].pc = "load_read",
                                                     ![t].age = now - inodes[ino].mtime,
                                                     ![t].size = FileSize(inodes[ino])]
                                 /\ UNCHANGED dir_entry
        /\ UNCHANGED <<calls_made, utc_offset, stream_write, dir_tmp, inodes, index_file, index_tmp>>
        /\ UNCHANGED notCache

\* Lines 441-442: open the entry file and json.load it.  A file that is gone
\* or holds no complete JSON text raises, which line 445 turns into a miss.
LoadRead ==
    \E t \in Threads :
        /\ th[t].pc = "load_read"
        /\ LET ino == dir_entry[th[t].key]
           IN  th' = IF ino = 0
                        THEN [th EXCEPT ![t].pc = "save_open", ![t].saw = "absent"]
                     ELSE IF inodes[ino].chunks = AllChunks(th[t].key)
                        THEN [th EXCEPT ![t].pc = "load_record", ![t].saw = "complete"]
                     ELSE [th EXCEPT ![t].pc = "save_open", ![t].saw = "partial"]
        /\ UNCHANGED <<calls_made, utc_offset, stream_write, cache_clock, dir_entry, dir_tmp, inodes,
                       index_file, index_tmp>>
        /\ UNCHANGED notCache

\* Line 443, _record_cache_access up to its _save_cache_index: the index is
\* loaded and the entry of the key set in the thread's copy.
LoadRecord ==
    \E t \in Threads :
        /\ th[t].pc = "load_record"
        /\ \E now \in cache_clock..MaxTime :
            /\ cache_clock' = now
            /\ th' = [th EXCEPT ![t].pc = "idx_write", ![t].ret = "hit",
                                ![t].index = IndexSet(index_file, th[t].key,
                                                      utcnow_timestamp(now), th[t].size)]
        /\ UNCHANGED <<calls_made, utc_offset, stream_write, dir_entry, dir_tmp, inodes, index_file, index_tmp>>
        /\ UNCHANGED notCache

\* _save_cached_profile, lines 453-456: open(..., 'w') of <key>.tmp
\* (_write_json_maybe_stream) or of the entry file itself (write_text).
SaveOpen ==
    \E t \in Threads :
        /\ th[t].pc = "save_open"
        /\ LET key == th[t].key
               old == IF stream_write THEN dir_tmp[key] ELSE dir_entry[key]
           IN  /\ inodes' = OpenForWrite(old, cache_clock)
               /\ IF stream_write
                     THEN /\ dir_tmp' = [dir_tmp EXCEPT ![key] = OpenedInode(old)]
                          /\ UNCHANGED dir_entry
                     ELSE /\ dir_entry' = [dir_entry EXCEPT ![key] = OpenedInode(old)]
                          /\ UNCHANGED dir_tmp
               /\ th' = [th EXCEPT ![t].pc = "save_write",
                                   ![t].handle = OpenedInode(old), ![t].pos = 0]
        /\ UNCHANGED <<calls_made, utc_offset, stream_write, cache_clock, index_file, index_tmp>>
        /\ UNCHANGED notCache

\* One write of the file object reaching the file, at the thread's position.
SaveWrite ==
    \E t \in Threads :
        /\ th[t].pc = "save_write"
        /\ inodes' = [inodes EXCEPT ![th[t].handle] =
                         [chunks |-> @.chunks \cup {th[t].pos + 1},
                          mtime |-> cache_clock]]
        /\ th' = [th EXCEPT ![t].pos = @ + 1,
                            ![t].pc = IF th[t].pos + 1 < EntryWrites(th[t].key)
                                         THEN "save_write"
                                      ELSE IF stream_write THEN "save_replace"
                                      ELSE "save_record"]
        /\ UNCHANGED <<calls_made, utc_offset, stream_write, cache_clock, dir_entry, dir_tmp, index_file,
                       index_tmp>>
        /\ UNCHANGED notCache

\* Line 426: tmp_path.replace(path); FileNotFoundError when <key>.tmp is gone
SaveReplace ==
    \E t \in Threads :
        /\ th[t].pc = "save_replace"
        /\ LET key == th[t].key
           IN  IF dir_tmp[key] = 0
                  THEN /\ th' = [th EXCEPT ![t].pc = "raised", ![t].outcome = "raised",
                                           ![t].handle = 0]
                       /\ UNCHANGED <<dir_entry, dir_tmp>>
                  ELSE /\ dir_entry' = [dir_entry EXCEPT ![key] = dir_tmp[key]]
                       /\ dir_tmp' = [dir_tmp EXCEPT ![key] = 0]
                       /\ th' = [th EXCEPT ![t].pc = "save_record", ![t].handle = 0]
        /\ UNCHANGED <<calls_made, utc_offset, stream_write, cache_clock, inodes, index_file, index_tmp>>
        /\ UNCHANGED notCache

\* Line 457: cp.stat().st_size, then _record_cache_access up to its
\* _save_cache_index.
SaveRecord ==
    \E t \in Threads :
        /\ th[t].pc = "save_record"
        /\ LET key == th[t].key
               ino == dir_entry[key]
           IN  IF ino = 0
                  THEN /\ th' = [th EXCEPT ![t].pc = "raised", ![t].outcome = "raised",
                                           ![t].handle = 0]
                       /\ UNCHANGED cache_clock
                  ELSE \E now \in cache_clock..MaxTime :
                      /\ cache_clock' = now
                      /\ th' = [th EXCEPT ![t].pc = "idx_write", ![t].ret = "enforce",
                                          ![t].handle = 0,
                                          ![t].index = IndexSet(index_file, key,
                                                                utcnow_timestamp(now),
                                                                FileSize(inodes[ino]))]
        /\ UNCHANGED <<calls_made, utc_offset, stream_write, dir_entry, dir_tmp, inodes, index_file, index_tmp>>
        /\ UNCHANGED notCache

\* _save_cache_index, line 343: the thread's own .tmp file is written
IndexWrite ==
    \E t \in Threads :
        /\ th[t].pc = "idx_write"
        /\ index_tmp' = [index_tmp EXCEPT ![t] = TRUE]
        /\ th' = [th EXCEPT ![t].pc = "idx_replace"]
        /\ UNCHANGED <<calls_made, utc_offset, stream_write, cache_clock, dir_entry, dir_tmp, inodes, index_file>>
        /\ UNCHANGED notCache

\* _save_cache_index, line 344: tmp_path.replace(index_path).  It raises when
\* the .tmp file is gone; inside _load_cached_profile that is a miss.
IndexReplace ==
    \E t \in Threads :
        /\ th[t].pc = "idx_replace"
        /\ IF index_tmp[t]
              THEN /\ index_file' = th[t].index
                   /\ index_tmp' = [index_tmp EXCEPT ![t] = FALSE]
                   /\ th' = [th EXCEPT
                                ![t].index = <<>>,
                                ![t].ret = "",
                                ![t].pc = IF th[t].ret \in {"hit", "saved"} THEN "done"
                                          ELSE th[t].ret,
                                ![t].outcome = IF th[t].ret \in {"hit", "saved"}
                                                  THEN th[t].ret ELSE @]
              ELSE /\ th' = [th EXCEPT
                                ![t].index = <<>>,
                                ![t].ret = "",
                                ![t].pc = IF th[t].ret \in {"hit", "save_open"}
                                             THEN "save_open" ELSE "raised",
                                ![t].outcome = IF th[t].ret \in {"hit", "save_open"}
                                                  THEN @ ELSE "raised"]
                   /\ UNCHANGED <<index_file, index_tmp>>
        /\ UNCHANGED <<calls_made, utc_offset, stream_write, cache_clock, dir_entry, dir_tmp, inodes>>
        /\ UNCHANGED notCache

\* Line 458, _enforce_cache_limits up to its _save_cache_index: the index is
\* loaded, every *.tmp file of the directory unlinked
\* (_cleanup_rebuildable_intermediates), expired entries and the least
\* recently used ones over the ceiling unlinked.
Enforce ==
    \E t \in Threads :
        /\ th[t].pc = "enforce"
        /\ \E now \in cache_clock..MaxTime :
            /\ cache_clock' = now
            /\ LET done == enforce_cache_limits(index_file, utcnow_timestamp(now))
               IN  /\ dir_entry' = [k \in Keys |->
                                       IF k \in done.removed THEN 0 ELSE dir_entry[k]]
                   /\ th' = [th EXCEPT ![t].pc = "idx_write", ![t].ret = "saved",
                                       ![t].index = done.index]
        /\ dir_tmp' = [k \in Keys |-> 0]
        /\ index_tmp' = [u \in Threads |-> FALSE]
        /\ UNCHANGED <<calls_made, utc_offset, stream_write, inodes, index_file>>
        /\ UNCHANGED notCache

\* ---------------------------------------------------------------- cache key
\* str(n) of a non-negative integer
RECURSIVE FormatInt(_)
FormatInt(n) ==
    LET digit == <<"0", "1", "2", "3", "4", "5", "6", "7", "8", "9">>[(n % 10) + 1]
    IN  IF n < 10 THEN <<digit>> ELSE FormatInt(n \div 10) \o <<digit>>

\* What an f-string makes of a column argument: 'None' for None
FormatArg(arg) == IF arg = None THEN <<"N", "o", "n", "e">> ELSE arg

\* Resolved paths, and the column names a caller can pass (None: no column).
ResolvedPaths == {<<"/", "a">>, <<"/", "b">>}
ColumnArgs ==
    {None, <<"N", "o", "n", "e">>, <<"a">>, <<"c">>, <<"a", "|", "b">>,
     <<"b", "|", "c">>}
KeyComponents ==
    [path : ResolvedPaths, st_size : 1..MaxStat, st_mtime_ns : 1..MaxStat,
     group_column : ColumnArgs, target_column : ColumnArgs]

\* hashlib.sha256(...).hexdigest(): a digest without collisions, the text
\* itself
sha256_hexdigest(raw) == raw

\* _cache_key, lines 311-314
cache_key(c) ==
    sha256_hexdigest(c.path \o <<"|">> \o FormatInt(c.st_size) \o <<"|">>
                     \o FormatInt(c.st_mtime_ns) \o <<"|">>
                     \o FormatArg(c.group_column) \o <<"|">>
                     \o FormatArg(c.target_column))

KeyInit ==
    /\ key_pc = "start"
    /\ key_args \in KeyComponents
    /\ key_store = <<>>
    /\ key_result = <<>>

\* _load_or_profile_file on an empty cache, lines 487-491: a miss, the file
\* is profiled and the profile saved under the key of the call.
KeyFirstCall ==
    /\ key_pc = "start"
    /\ key_store' = [key |-> cache_key(key_args), saved |-> key_args]
    /\ key_pc' = "saved"
    /\ UNCHANGED <<key_args, key_result>>
    /\ UNCHANGED notKey

\* A later _load_or_profile_file, on any file state and arguments: the entry
\* is found when the key of the call names the saved file (line 432), else
\* the file is profiled with the arguments of the call.
KeySecondCall ==
    /\ key_pc = "saved"
    /\ \E c \in KeyComponents :
           /\ key_args' = c
           /\ key_result' =
                  IF cache_key(c) = key_store.key
                      THEN [hit |-> TRUE, profile_of |-> key_store.saved]
                  ELSE [hit |-> FALSE, profile_of |-> c]
    /\ key_pc' = "returned"
    /\ UNCHANGED key_store
    /\ UNCHANGED notKey

\* analyze_multiple_csv with one worker, lines 512-516: the loop calls
\* _load_or_profile_file for one path after the other in the calling thread;
\* no other thread touches the cache.
CacheSeqInit ==
    /\ stream_write \in BOOLEAN
    /\ cache_clock = 0
    /\ dir_entry = [k \in Keys |-> 0]
    /\ dir_tmp = [k \in Keys |-> 0]
    /\ inodes = [i \in InodeIds |-> [chunks |-> {}, mtime |-> 0]]
    /\ index_file = <<>>
    /\ index_tmp = [t \in Threads |-> FALSE]
    /\ \E key \in Keys :
           th = [t \in Threads |->
                    IF t = 1 THEN Locals(key)
                    ELSE [Locals(key) EXCEPT !.pc = "idle", !.outcome = "idle"]]
    /\ calls_made = 1
    /\ utc_offset \in UtcOffsets

\* The next iteration of the loop, after the previous call returned.
NextCall ==
    /\ th[1].pc = "done"
    /\ calls_made < MaxCalls
    /\ \E key \in Keys : th' = [th EXCEPT ![1] = Locals(key)]
    /\ calls_made' = calls_made + 1
    /\ UNCHANGED <<utc_offset, stream_write, cache_clock, dir_entry, dir_tmp,
                   inodes, index_file, index_tmp>>
    /\ UNCHANGED notCache

\* ================================================================ explainer
\* explain.py: the four rules and generate_reason_candidates, and the reason
\* lists of multi_csv.analyze_multiple_csv.  Ratios are in millionths, scores
\* in hundredths.  column_profiles is the sequence of its (col, p) items.
\* The rule names in ascending order of their text: '결측 집중',
\* '단위 불일치', '최근 급변', '특정 카테고리 편중'.
RuleOrder ==
    <<"missing_concentration", "unit_mismatch", "recent_change", "category_bias">>
RuleRank(rule) == CHOOSE i \in 1..Len(RuleOrder) : RuleOrder[i] = rule

\* None, where a rule returns a candidate or None
NoCandidate == [rule |-> "", score |-> 0, column |-> ""]

\* round(num / den) to the nearest integer, ties to even (num >= 0, den > 0)
RoundHalfEven(num, den) ==
    LET q == num \div den
        r == num % den
    IN  IF 2 * r > den \/ (2 * r = den /\ q % 2 = 1) THEN q + 1 ELSE q

\* round(min(100.0, ratio * 100.0), 2)
ScoreOfRatio(ratio) == RoundHalfEven(Min(1000000, ratio), 100)

\* The first item of a non-empty list with the largest key.
FirstMax(items, Key(_)) ==
    items[CHOOSE i \in 1..Len(items) :
              /\ \A j \in 1..Len(items) : Key(items[j]) <= Key(items[i])
              /\ \A j \in 1..(i - 1) : Key(items[j]) < Key(items[i])]

MISSING_RATIO_MIN == 200000

\* The rule that names the first column at or over the threshold.
rule_missing_concentration_first(column_profiles) ==
    LET targets == SelectSeq(column_profiles, LAMBDA it : it.p.missing_ratio >= MISSING_RATIO_MIN)
    IN  IF targets = <<>> THEN NoCandidate
        ELSE [rule |-> "missing_concentration",
              score |-> ScoreOfRatio(targets[1].p.missing_ratio),
              column |-> targets[1].col]

\* explain.py:37-48
rule_missing_concentration(column_profiles) ==
    LET targets == SelectSeq(column_profiles, LAMBDA it : it.p.missing_ratio >= MISSING_RATIO_MIN)
        best == FirstMax(targets, LAMBDA it : it.p.missing_ratio)
    IN  IF targets = <<>> THEN NoCandidate
        ELSE [rule |-> "missing_concentration",
              score |-> ScoreOfRatio(best.p.missing_ratio),
              column |-> best.col]

\* explain.py:51-72
DOMINANT_RATIO_MIN == 650000
rule_category_bias(column_profiles) ==
    LET eligible ==
            SelectSeq(column_profiles,
                      LAMBDA it : /\ ~(it.p.dtype # "string"
                                          /\ it.p.semantic_type # "category")
                                  /\ it.p.dominant_value_ratio >= DOMINANT_RATIO_MIN)
        best == FirstMax(eligible, LAMBDA it : it.p.dominant_value_ratio)
    IN  IF eligible = <<>> THEN NoCandidate
        ELSE [rule |-> "category_bias",
              score |-> ScoreOfRatio(best.p.dominant_value_ratio),
              column |-> best.col]

\* The characters of [A-Za-z] that occur in the modelled values, and '/', '%'.
UnitChars == {"a", "b", "g", "k", "s", "G", "K", "/", "%"}
Lower(ch) == IF ch = "G" THEN "g" ELSE IF ch = "K" THEN "k" ELSE ch

\* re.search(r'([A-Za-z...]+)$', text): the longest run that ends the text
RECURSIVE TrailingUnit(_)
TrailingUnit(s) ==
    IF s = <<>> \/ s[Len(s)] \notin UnitChars THEN <<>>
    ELSE Append(TrailingUnit(SubSeq(s, 1, Len(s) - 1)), s[Len(s)])

\* explain._extract_unit
extract_unit(value) ==
    LET text == Strip(value)
        unit == TrailingUnit(text)
    IN  IF text = <<>> \/ ~(\E i \in 1..Len(text) : IsDigit(text[i])) THEN None
        ELSE IF unit = <<>> THEN None
        ELSE IF Len(unit) > 8 THEN None
        ELSE [i \in 1..Len(unit) |-> Lower(unit[i])]

\* The candidate of one column in _rule_unit_mismatch (explain.py:79-98).
UnitCandidate(it) ==
    LET top_values == it.p.top_values
        with_unit == SelectSeq(top_values, LAMBDA tv : extract_unit(tv.value) # None)
        units == {extract_unit(with_unit[i].value) : i \in 1..Len(with_unit)}
        coverage == SeqSum([i \in 1..Len(with_unit) |-> with_unit[i].ratio])
    IN  IF Cardinality(units) < 2 THEN NoCandidate
        ELSE IF coverage < 200000 THEN NoCandidate
        ELSE [rule |-> "unit_mismatch",
              score |-> RoundHalfEven(
                            Min(2000000, (Cardinality(units) - 1) * 360000 + coverage),
                            200),
              column |-> it.col]

\* explain.py:75-103
rule_unit_mismatch(column_profiles) ==
    LET candidates ==
            SelectSeq([i \in 1..Len(column_profiles) |-> UnitCandidate(column_profiles[i])],
                      LAMBDA c : c # NoCandidate)
    IN  IF candidates = <<>> THEN NoCandidate
        ELSE FirstMax(candidates, LAMBDA c : c.score)

\* A date cell is [fmt, day]: the format its text has and the day it names;
\* the empty cell has fmt "".
DATE_FORMATS == {"%Y-%m-%d", "%Y/%m/%d", "%Y.%m.%d", "%Y-%m-%d %H:%M:%S"}

\* explain._parse_date
parse_date(value) ==
    IF value.fmt \in DATE_FORMATS THEN [valid |-> TRUE, day |-> value.day]
    ELSE [valid |-> FALSE, day |-> 0]

\* explain.py:121-129: the dict `values` of one row
RowValues(row, num_cols) ==
    LET parsed(ncol) == ParseFloat(RemoveChars(Strip(row[ncol]), {","}))
    IN  [ncol \in {c \in ColNames(num_cols) : parsed(c) # NoFloat} |-> parsed(ncol)[1]]

\* explain.py:116-131: `series` from row i on; an item also carries the
\* position of its row in the file.
RECURSIVE BuildSeries(_, _, _, _)
BuildSeries(rows, date_col, num_cols, i) ==
    IF i > Len(rows) THEN <<>>
    ELSE LET dt == parse_date(rows[i][date_col])
             values == RowValues(rows[i], num_cols)
             rest == BuildSeries(rows, date_col, num_cols, i + 1)
         IN  IF ~dt.valid \/ DOMAIN values = {} THEN rest
             ELSE <<[dt |-> dt.day, values |-> values, row |-> i]>> \o rest

\* series.sort(key=lambda x: x[0]): stable
RECURSIVE SortedByDate(_)
SortedByDate(series) ==
    IF series = <<>> THEN <<>>
    ELSE LET first == CHOOSE i \in 1..Len(series) :
                          /\ \A j \in 1..Len(series) : series[i].dt <= series[j].dt
                          /\ \A j \in 1..(i - 1) : series[j].dt > series[i].dt
         IN  <<series[first]>> \o SortedByDate(RemoveAt(series, first))

\* s[start:stop] of a list
PySlice(s, start, stop) ==
    LET norm(k) == IF k < 0 THEN Max(Len(s) + k, 0) ELSE Min(k, Len(s))
    IN  SubSeq(s, norm(start) + 1, norm(stop))

\* explain.py:133, 137: the least series length and the window size
MIN_SERIES_ROWS == 6
WindowSize(total) == Max(3, total \div 5)

\* The window that ends one row before the end of the series.
PreviousWindow_shifted(series, window) == PySlice(series, -window - 1, -1)

\* prev = series[-2 * window:-window]
PreviousWindow(series, window) == PySlice(series, -2 * window, -window)
\* recent = series[-window:]
RecentWindow(series, window) == PySlice(series, -window, Len(series))

\* explain.py:143-167: the candidate of one numeric column; a mean is sum / len
ChangeCandidate(prev, recent, ncol) ==
    LET prev_vals == SelectSeq(prev, LAMBDA x : ncol \in DOMAIN x.values)
        recent_vals == SelectSeq(recent, LAMBDA x : ncol \in DOMAIN x.values)
        pl == Len(prev_vals)
        rl == Len(recent_vals)
        ps == SeqSum([i \in 1..pl |-> prev_vals[i].values[ncol]])
        rs == SeqSum([i \in 1..rl |-> recent_vals[i].values[ncol]])
        \* change_ratio = |rs / rl - ps / pl| / max(|ps / pl|, 1e-9) as
        \* num / den; with prev_mean = 0 it is 0 or at least 1e9 / rl
        num == Abs(rs * pl - ps * rl)
        den == rl * Abs(ps)
        score == IF ps = 0 THEN 10000 ELSE RoundHalfEven(Min(100 * den, num) * 100, den)
    IN  IF pl < 2 \/ rl < 2 THEN NoCandidate
        ELSE IF ps = 0 /\ rs = 0 THEN NoCandidate
        ELSE IF ps # 0 /\ 2 * num < den THEN NoCandidate
        ELSE [rule |-> "recent_change", score |-> score, column |-> ncol]

\* One iteration of `for date_col in date_cols` (explain.py:115-167): the
\* series, the windows and the candidates of the numeric columns.
DateColumnPass(rows, date_col, num_cols) ==
    LET series == SortedByDate(BuildSeries(rows, date_col, num_cols, 1))
        window == WindowSize(Len(series))
        prev == PreviousWindow(series, window)
        recent == RecentWindow(series, window)
        abstained == Len(series) < MIN_SERIES_ROWS \/ prev = <<>> \/ recent = <<>>
    IN  [date_column |-> date_col,
         series |-> series,
         abstained |-> abstained,
         prev |-> IF abstained THEN <<>> ELSE prev,
         recent |-> IF abstained THEN <<>> ELSE recent,
         candidates |->
             IF abstained THEN <<>>
             ELSE SelectSeq([i \in 1..Len(num_cols) |->
                                ChangeCandidate(prev, recent, num_cols[i])],
                            LAMBDA c : c # NoCandidate)]

RECURSIVE Concat(_)
Concat(lists) == IF lists = <<>> THEN <<>> ELSE Head(lists) \o Concat(Tail(lists))

\* The passes of _rule_recent_change over the date columns; none when the
\* rule returns before it reads the file (explain.py:107-110).
RecentPasses(rows, column_profiles) ==
    LET date_items == SelectSeq(column_profiles, LAMBDA it : it.p.semantic_type = "date")
        num_items == SelectSeq(column_profiles, LAMBDA it : it.p.dtype = "float")
        date_cols == [i \in 1..Len(date_items) |-> date_items[i].col]
        num_cols == [i \in 1..Len(num_items) |-> num_items[i].col]
    IN  IF date_cols = <<>> \/ num_cols = <<>> THEN <<>>
        ELSE [i \in 1..Len(date_cols) |-> DateColumnPass(rows, date_cols[i], num_cols)]

\* explain.py:106-170
rule_recent_change(rows, column_profiles) ==
    LET passes == RecentPasses(rows, column_profiles)
        candidates == Concat([i \in 1..Len(passes) |-> passes[i].candidates])
    IN  IF candidates = <<>> THEN NoCandidate
        ELSE FirstMax(candidates, LAMBDA c : c.score)

\* The order of the rules by ascending name.
ScoreRuleGreater_name_ascending(x, y) ==
    x.score > y.score \/ (x.score = y.score /\ RuleRank(x.rule) < RuleRank(y.rule))

\* The key (score, rule) of generate_reason_candidates.
ScoreRuleGreater(x, y) ==
    x.score > y.score \/ (x.score = y.score /\ RuleRank(x.rule) > RuleRank(y.rule))

\* filtered.sort(key=(score, rule), reverse=True): stable, the first of the
\* items that no item is greater than comes first.
RECURSIVE SortedByScoreRule(_)
SortedByScoreRule(items) ==
    IF items = <<>> THEN <<>>
    ELSE LET first == CHOOSE i \in 1..Len(items) :
                          /\ \A j \in 1..Len(items) : ~ScoreRuleGreater(items[j], items[i])
                          /\ \A j \in 1..(i - 1) : ScoreRuleGreater(items[i], items[j])
         IN  <<items[first]>> \o SortedByScoreRule(RemoveAt(items, first))

\* all_reason_candidates.sort(key=score, reverse=True): stable
RECURSIVE SortedByScore(_)
SortedByScore(items) ==
    IF items = <<>> THEN <<>>
    ELSE LET first == CHOOSE i \in 1..Len(items) :
                          /\ \A j \in 1..Len(items) : items[j].score <= items[i].score
                          /\ \A j \in 1..(i - 1) : items[j].score < items[i].score
         IN  <<items[first]>> \o SortedByScore(RemoveAt(items, first))

\* explain.py:174-179: `candidates`
RuleCandidates(rows, column_profiles) ==
    <<rule_missing_concentration(column_profiles),
      rule_category_bias(column_profiles),
      rule_unit_mismatch(column_profiles),
      rule_recent_change(rows, column_profiles)>>

\* explain.generate_reason_candidates
generate_reason_candidates(rows, column_profiles, top_k) ==
    LET candidates == RuleCandidates(rows, column_profiles)
        filtered == SelectSeq(candidates, LAMBDA c : c # NoCandidate)
        sorted == SortedByScoreRule(filtered)
    IN  SubSeq(sorted, 1, Min(top_k, Len(sorted)))

\* multi_csv.py:553-557, 566: 'reason_candidates' of the returned dict
AllReasonCandidates(paths, reasons) ==
    LET all == Concat([f \in 1..Len(reasons) |->
                          [i \in 1..Len(reasons[f]) |->
                              [file |-> paths[f], rule |-> reasons[f][i].rule,
                               score |-> reasons[f][i].score,
                               column |-> reasons[f][i].column]]])
        sorted == SortedByScore(all)
    IN  SubSeq(sorted, 1, Min(3, Len(sorted)))

\* ---- the files explained
TopValue(value, ratio) == [value |-> value, ratio |-> ratio]
Profile(missing_ratio, dtype, semantic_type, dominant_value_ratio, top_values) ==
    [missing_ratio |-> missing_ratio, dtype |-> dtype,
     semantic_type |-> semantic_type,
     dominant_value_ratio |-> dominant_value_ratio, top_values |-> top_values]

\* Profiles of the column d: a date column, a category column, a text column
\* whose top values carry two units.
DProfiles ==
    {Profile(mr, "string", "date", 166667,
             <<TopValue(<<"2", "0", "2", "4">>, 166667)>>) : mr \in {0, 500000}}
    \cup {Profile(0, "string", "category", dom, <<TopValue(<<"a">>, dom)>>) :
             dom \in {600000, 700000}}
    \cup {Profile(0, "string", "text", 400000,
                  <<TopValue(<<"1", "0", "k", "g">>, 400000),
                    TopValue(<<"5", "G">>, 300000)>>)}

\* Profiles of the column v: a numeric column, a text column with one unit.
VProfiles ==
    {Profile(mr, "float", "numeric", 166667, <<TopValue(<<"1">>, 166667)>>) :
        mr \in {0, 333333, 700000}}
    \cup {Profile(100000, "string", "text", 300000,
                  <<TopValue(<<"1", "k", "g">>, 300000),
                    TopValue(<<"2", "K", "G">>, 200000)>>)}

\* Profiles of a third column u: a category column with two units.
UProfiles ==
    {Profile(0, "string", "category", 700000,
             <<TopValue(<<"1", "0", "k", "g">>, 700000),
               TopValue(<<"5", "g">>, 200000)>>)}

ExplainProfiles ==
    {<<[col |-> "d", p |-> dp], [col |-> "v", p |-> vp]>> :
        dp \in DProfiles, vp \in VProfiles}
    \cup {<<[col |-> "d", p |-> dp], [col |-> "v", p |-> vp], [col |-> "u", p |-> up]>> :
             dp \in DProfiles, vp \in VProfiles, up \in UProfiles}

\* Rows of a file, from the values of its v cells: row i holds day i.
RowsOf(cells) ==
    [i \in 1..Len(cells) |->
        [d |-> [fmt |-> "%Y-%m-%d", day |-> i], v |-> cells[i], u |-> <<"a">>]]

ExplainRows ==
    {<<>>,
     RowsOf(<<<<"2">>, <<"2">>, <<"2">>, <<"3">>, <<"3">>, <<"3">>>>),
     RowsOf(<<<<"1">>, <<"1">>, <<"1">>, <<"3">>, <<"3">>, <<"3">>>>)}

ExplainFiles ==
    {[profiles |-> ps, rows |-> rs] : ps \in ExplainProfiles, rs \in ExplainRows}

\* The files of one analyze_multiple_csv call: any file first, then files
\* with a date and a numeric column or with a category and a numeric column.
MaxFiles == 2
LaterFiles ==
    {f \in ExplainFiles :
        /\ Len(f.profiles) = 2
        /\ f.profiles[2].p.dtype = "float" /\ f.profiles[2].p.missing_ratio # 333333
        /\ \/ f.profiles[1].p.semantic_type = "date" /\ f.profiles[1].p.missing_ratio = 500000
           \/ f.profiles[1].p.dominant_value_ratio = 700000
        /\ Len(f.rows) > 0 => f.rows[1].v = <<"2">>}

ExplainInit ==
    /\ ex_pc = "explain"
    /\ \E n \in 1..MaxFiles :
        /\ ex_files \in [1..n -> ExplainFiles]
        /\ \A i \in 2..n : ex_files[i] \in LaterFiles
    /\ files_reasons = <<>>
    /\ rule_results = <<>>
    /\ recent_windows = <<>>
    /\ reason_candidates = <<>>

\* One iteration of the loop over the files (multi_csv.py:531-548): the call
\* of generate_reason_candidates for the next file.
ExplainFile ==
    /\ ex_pc = "explain"
    /\ Len(files_reasons) < Len(ex_files)
    /\ LET f == ex_files[Len(files_reasons) + 1]
       IN  /\ files_reasons' =
                  Append(files_reasons,
                         generate_reason_candidates(f.rows, f.profiles, 3))
           /\ rule_results' =
                  Append(rule_results, RuleCandidates(f.rows, f.profiles))
           /\ recent_windows' =
                  Append(recent_windows, RecentPasses(f.rows, f.profiles))
    /\ UNCHANGED <<ex_pc, ex_files, reason_candidates>>
    /\ UNCHANGED notExplain

\* multi_csv.py:553-557, 566
AssembleReasons ==
    /\ ex_pc = "explain"
    /\ Len(files_reasons) = Len(ex_files)
    /\ ex_pc' = "returned"
    /\ reason_candidates' =
           AllReasonCandidates([f \in 1..Len(ex_files) |-> f], files_reasons)
    /\ UNCHANGED <<ex_files, files_reasons, rule_results, recent_windows>>
    /\ UNCHANGED notExplain

\* ---- one file with a date column and a numeric column, of up to MaxSeries
\* rows
MaxSeries == 22

\* Row i: the days are out of order, every skip-th row has a date in a
\* format that does not parse and every (skip + 1)-th an empty v cell; the
\* rows of the last days hold 3, the others 1.
SeriesRow(i, skip) ==
    LET day == (i * 7) % 23
    IN  [d |-> [fmt |-> IF skip > 0 /\ i % skip = 0 THEN "%d/%m/%Y" ELSE "%Y-%m-%d",
                day |-> day],
         v |-> IF skip > 0 /\ i % (skip + 1) = 0 THEN <<>>
               ELSE IF day >= 19 THEN <<"3">> ELSE <<"1">>,
         u |-> <<"a">>]

SeriesFiles ==
    {[profiles |-> <<[col |-> "d",
                      p |-> Profile(0, "string", "date", 166667, <<>>)],
                     [col |-> "v",
                      p |-> Profile(0, "float", "numeric", 166667, <<>>)]>>,
      rows |-> [i \in 1..n |-> SeriesRow(i, skip)]] :
        n \in 0..MaxSeries, skip \in {0, 3, 4, 21}}

RecentInit ==
    /\ ex_pc = "explain"
    /\ \E f \in SeriesFiles : ex_files = <<f>>
    /\ files_reasons = <<>>
    /\ rule_results = <<>>
    /\ recent_windows = <<>>
    /\ reason_candidates = <<>>

\* ============================================================ schema drift
\* multi_csv._schema_drift and the shared columns of analyze_multiple_csv
\* (multi_csv.py:549).  Ratios are in millionths; a mean is the fraction
\* <<sum, count>> in lowest terms.
MaxDriftFiles == 2

FracLess(x, y) == x[1] * y[2] < y[1] * x[2]
FracMax(S) == CHOOSE x \in S : \A y \in S : ~FracLess(x, y)
FracMin(S) == CHOOSE x \in S : \A y \in S : ~FracLess(y, x)

\* round(x, 6) of a fraction x >= 0, in millionths
Round6Frac(x) == RoundHalfEven(x[1] * 1000000, x[2])

\* The record with the dtypes counted as a list.
DriftRecord_dtype_list(profiled, col) ==
    LET having == {f \in 1..Len(profiled) : col \in DOMAIN profiled[f].column_profiles}
        missing_ratios == {profiled[f].column_profiles[col].missing_ratio : f \in having}
        dominant_ratios ==
            {profiled[f].column_profiles[col].dominant_value_ratio : f \in having}
        means == {profiled[f].numeric_stats[col].mean :
                     f \in {g \in 1..Len(profiled) : col \in DOMAIN profiled[g].numeric_stats}}
    IN  [dtype_changed |-> Cardinality(having) > 1,
         missing_ratio_range |->
             IF missing_ratios # {} THEN SetMax(missing_ratios) - SetMin(missing_ratios) ELSE 0,
         dominant_value_ratio_range |->
             IF dominant_ratios # {}
             THEN SetMax(dominant_ratios) - SetMin(dominant_ratios) ELSE 0,
         mean_range |->
             IF means # {} THEN Round6Frac(FracSub(FracMax(means), FracMin(means))) ELSE 0]

\* drift[col] (multi_csv.py:292-307)
DriftRecord(profiled, col) ==
    LET having == {f \in 1..Len(profiled) : col \in DOMAIN profiled[f].column_profiles}
        dtypes == {profiled[f].column_profiles[col].dtype : f \in having}
        missing_ratios == {profiled[f].column_profiles[col].missing_ratio : f \in having}
        dominant_ratios ==
            {profiled[f].column_profiles[col].dominant_value_ratio : f \in having}
        means == {profiled[f].numeric_stats[col].mean :
                     f \in {g \in 1..Len(profiled) : col \in DOMAIN profiled[g].numeric_stats}}
    IN  [dtype_changed |-> Cardinality(dtypes) > 1,
         missing_ratio_range |->
             IF missing_ratios # {} THEN SetMax(missing_ratios) - SetMin(missing_ratios) ELSE 0,
         dominant_value_ratio_range |->
             IF dominant_ratios # {}
             THEN SetMax(dominant_ratios) - SetMin(dominant_ratios) ELSE 0,
         mean_range |->
             IF means # {} THEN Round6Frac(FracSub(FracMax(means), FracMin(means))) ELSE 0]

\* multi_csv._schema_drift
schema_drift(profiled, shared) ==
    [col \in ColNames(shared) |-> DriftRecord(profiled, col)]

\* sorted(set.intersection(*all_columns)) over the column names a, b
SharedColumns(profiled) ==
    SelectSeq(<<"a", "b">>,
              LAMBDA c : \A f \in 1..Len(profiled) : c \in profiled[f].columns)

\* What a file's profile holds for one column: a string column, or a float
\* column and its mean.
DriftColumns ==
    {[dtype |-> "string", missing_ratio |-> mr, dominant_value_ratio |-> dom,
      mean |-> <<0, 1>>] : mr \in {0, 333333}, dom \in {250000}}
    \cup {[dtype |-> "float", missing_ratio |-> 0, dominant_value_ratio |-> dom,
           mean |-> mean] : dom \in {250000, 1000000}, mean \in {<<1, 3>>, <<2, 1>>}}

\* A profiled file over the columns cols: numeric_stats has the float columns.
DriftFile(cols, of) ==
    [columns |-> cols,
     column_profiles |->
         [c \in cols |-> [dtype |-> of[c].dtype, missing_ratio |-> of[c].missing_ratio,
                          dominant_value_ratio |-> of[c].dominant_value_ratio]],
     numeric_stats |->
         [c \in {x \in cols : of[x].dtype = "float"} |-> [mean |-> of[c].mean]]]

DriftFiles ==
    UNION {{DriftFile(cols, of) : of \in [cols -> DriftColumns]} :
              cols \in {{"a"}, {"a", "b"}}}

DriftInit ==
    /\ drift_pc = "ready"
    /\ \E n \in 1..MaxDriftFiles : drift_files \in [1..n -> DriftFiles]
    /\ shared_columns = <<>>
    /\ drift = <<>>

\* multi_csv.py:549-551: shared_columns and schema_drift of the returned dict
SchemaDrift ==
    /\ drift_pc = "ready"
    /\ drift_pc' = "done"
    /\ shared_columns' = SharedColumns(drift_files)
    /\ drift' = schema_drift(drift_files, SharedColumns(drift_files))
    /\ UNCHANGED drift_files
    /\ UNCHANGED notDrift

\* ========================================================= preprocess jobs
\* web.py: submit_preprocess_job, _preprocess_job_worker, get_preprocess_job
\* and _cleanup_expired_preprocess_jobs.  Time is in clock ticks.
MaxJobs == 3
MaxJobClock == 1
\* PREPROCESS_JOB_TTL_SECONDS, in clock ticks
JobTtlTicks == 1
\* ThreadPoolExecutor(max_workers=2)
PREPROCESS_MAX_WORKERS == 2

\* str.lower() on the letters of the messages below
JobLower(ch) ==
    IF ch = "O" THEN "o" ELSE IF ch = "M" THEN "m" ELSE IF ch = "B" THEN "b" ELSE ch

LowerText(text) == [i \in 1..Len(text) |-> JobLower(text[i])]

\* token in msg
IsSubstring(token, msg) ==
    \E i \in 0..(Len(msg) - Len(token)) :
        \A j \in 1..Len(token) : msg[i + j] = token[j]

\* The tokens of _classify_preprocess_error; a Hangul syllable is one
\* character, written here by its romanisation.
MemoryTokens ==
    {<<"m", "e", "m", "o", "r", "y">>, <<"[me]", "[mo]", "[ri]">>,
     <<"o", "u", "t", " ", "o", "f", " ", "m", "e", "m", "o", "r", "y">>,
     <<"o", "o", "m">>}

CorruptionTokens ==
    {<<"b", "a", "s", "e", "6", "4">>, <<"z", "i", "p">>,
     <<"c", "o", "r", "r", "u", "p", "t">>, <<"[son]", "[sang]">>,
     <<"b", "r", "o", "k", "e", "n">>,
     <<"u", "n", "s", "u", "p", "p", "o", "r", "t", "e", "d", " ", "e", "x", "c", "e",
       "l", " ", "f", "o", "r", "m", "a", "t">>}

\* The classification with a reason of its own for a message without a token.
classify_preprocess_error_unknown(exc) ==
    LET msg == LowerText(exc)
    IN  IF \E token \in MemoryTokens : IsSubstring(token, msg) THEN "memory_limit"
        ELSE IF \E token \in CorruptionTokens : IsSubstring(token, msg)
        THEN "file_corruption"
        ELSE "unknown"

\* web._classify_preprocess_error
classify_preprocess_error(exc) ==
    LET msg == LowerText(exc)
    IN  IF \E token \in MemoryTokens : IsSubstring(token, msg) THEN "memory_limit"
        ELSE IF \E token \in CorruptionTokens : IsSubstring(token, msg)
        THEN "file_corruption"
        ELSE "parser_error"

\* What _run_preprocess_job does with a payload: it returns the result, or
\* raises an Exception with a message.
JobPayloads ==
    {[raises |-> FALSE, message |-> <<>>],
     [raises |-> TRUE, message |-> <<"O", "O", "M">>],
     [raises |-> TRUE, message |-> <<"B", "r", "o", "k", "e", "n">>],
     [raises |-> TRUE, message |-> <<"n", "o", " ", "r", "o", "w">>]}

NoJob == [status |-> "absent", expire_at |-> 0, failure_reason |-> ""]
FreeWorker == [pc |-> "free", job_id |-> 0, payload |-> [raises |-> FALSE, message |-> <<>>]]

\* web._cleanup_expired_preprocess_jobs: the table without the expired jobs
cleanup_expired_preprocess_jobs(table, now) ==
    [id \in DOMAIN table |->
        IF table[id].status # "absent" /\ table[id].expire_at <= now THEN NoJob
        ELSE table[id]]

\* The dict get_preprocess_job returns, read from the table after the cleanup.
get_preprocess_job(table, now, job_id) ==
    LET cleaned == cleanup_expired_preprocess_jobs(table, now)
        rec == IF job_id \in DOMAIN cleaned THEN cleaned[job_id] ELSE NoJob
    IN  IF rec.status = "absent"
        THEN [job_id |-> job_id, status |-> "not_found", failure_reason |-> ""]
        ELSE IF rec.status = "failed"
        THEN [job_id |-> job_id, status |-> "failed",
              failure_reason |-> rec.failure_reason]
        ELSE [job_id |-> job_id, status |-> rec.status, failure_reason |-> ""]

JobInit ==
    /\ job_now = 0
    /\ accepted = <<>>
    /\ PREPROCESS_JOBS = [id \in 1..MaxJobs |-> NoJob]
    /\ pool_queue = <<>>
    /\ pool_workers = [w \in 1..PREPROCESS_MAX_WORKERS |-> FreeWorker]
    /\ response = [job_id |-> 0, status |-> "", failure_reason |-> ""]

\* web.submit_preprocess_job: the job id is new (uuid4)
SubmitPreprocessJob ==
    /\ Len(accepted) < MaxJobs
    /\ \E payload \in JobPayloads :
        LET job_id == Len(accepted) + 1
            cleaned == cleanup_expired_preprocess_jobs(PREPROCESS_JOBS, job_now)
        IN  /\ accepted' = Append(accepted, [payload |-> payload,
                                             expire_at |-> job_now + JobTtlTicks])
            /\ PREPROCESS_JOBS' =
                   [cleaned EXCEPT ![job_id] =
                       [status |-> "queued", expire_at |-> job_now + JobTtlTicks,
                        failure_reason |-> ""]]
            /\ pool_queue' = Append(pool_queue, [job_id |-> job_id, payload |-> payload])
    /\ UNCHANGED <<job_now, pool_workers, response>>
    /\ UNCHANGED notJob

\* A free pool thread takes the next call of _preprocess_job_worker and runs
\* it up to _run_preprocess_job.  The threads are interchangeable: the free
\* thread of lowest index takes the call.
JobWorkerStart ==
    /\ pool_queue # <<>>
    /\ \E w \in DOMAIN pool_workers :
        /\ pool_workers[w].pc = "free"
        /\ \A v \in 1..(w - 1) : pool_workers[v].pc # "free"
        /\ LET call == Head(pool_queue)
           IN  /\ pool_workers' =
                      [pool_workers EXCEPT ![w] =
                          [pc |-> "processing", job_id |-> call.job_id,
                           payload |-> call.payload]]
               /\ PREPROCESS_JOBS' =
                      IF PREPROCESS_JOBS[call.job_id].status # "absent"
                      THEN [PREPROCESS_JOBS EXCEPT ![call.job_id].status = "running"]
                      ELSE PREPROCESS_JOBS
    /\ pool_queue' = Tail(pool_queue)
    /\ UNCHANGED <<job_now, accepted, response>>
    /\ UNCHANGED notJob

\* _run_preprocess_job returns or raises, and _preprocess_job_worker records it.
JobWorkerFinish ==
    /\ \E w \in DOMAIN pool_workers :
        /\ pool_workers[w].pc = "processing"
        /\ LET job_id == pool_workers[w].job_id
               payload == pool_workers[w].payload
           IN  PREPROCESS_JOBS' =
                   IF PREPROCESS_JOBS[job_id].status = "absent" THEN PREPROCESS_JOBS
                   ELSE IF payload.raises
                   THEN [PREPROCESS_JOBS EXCEPT
                            ![job_id].status = "failed",
                            ![job_id].failure_reason =
                                classify_preprocess_error(payload.message)]
                   ELSE [PREPROCESS_JOBS EXCEPT ![job_id].status = "done"]
        /\ pool_workers' = [pool_workers EXCEPT ![w] = FreeWorker]
    /\ UNCHANGED <<job_now, accepted, pool_queue, response>>
    /\ UNCHANGED notJob

\* web.get_preprocess_job, for an id that submit returned or any other id (0)
GetPreprocessJob ==
    /\ \E job_id \in 0..MaxJobs :
        /\ job_id = 0 \/ job_id <= Len(accepted)
        /\ response' = get_preprocess_job(PREPROCESS_JOBS, job_now, job_id)
    /\ PREPROCESS_JOBS' = cleanup_expired_preprocess_jobs(PREPROCESS_JOBS, job_now)
    /\ UNCHANGED <<job_now, accepted, pool_queue, pool_workers>>
    /\ UNCHANGED notJob

\* Time passes.
JobTick ==
    /\ job_now < MaxJobClock
    /\ job_now' = job_now + 1
    /\ UNCHANGED <<accepted, PREPROCESS_JOBS, pool_queue, pool_workers, response>>
    /\ UNCHANGED notJob

\* ========================================================== specifications
\* The state of a group none of whose operations runs.
ProfileIdle ==
    /\ scan_pc = "idle"
    /\ columns = <<>>
    /\ sha1idx = <<>>
    /\ row_count = 0
    /\ missing = <<>> /\ non_missing = <<>> /\ unique_bitmaps = <<>>
    /\ value_counts = <<>> /\ value_overflow = <<>> /\ value_samples = <<>>
    /\ numeric_positive = <<>> /\ numeric_zero = <<>> /\ numeric_negative = <<>>
    /\ numeric_counts = <<>> /\ numeric_sums = <<>> /\ numeric_mins = <<>>
    /\ numeric_maxs = <<>> /\ text_seen = <<>> /\ numeric_outlier_samples = <<>>
    /\ profiles = <<>> /\ numeric_stats = <<>> /\ column_values = <<>>

CompareIdle ==
    /\ cmp_pc = "idle"
    /\ before_csv_text = <<>> /\ after_csv_text = <<>>
    /\ before_source = "before.csv" /\ after_source = "after.csv"
    /\ cmp_result = <<>> /\ lineage_files = <<>> /\ utc_now = 0
    /\ sha256_prefix = <<>> /\ compare_calls = 0

AnalyzeIdle ==
    /\ an_pc = "idle"
    /\ csv_paths = <<>> /\ max_workers = 0 /\ use_cache = FALSE
    /\ source_kind = <<>> /\ cache_entry = <<>> /\ index_writable = TRUE
    /\ futures = <<>> /\ outcomes = <<>> /\ collected = {}
    /\ profiled_list = <<>> /\ files = <<>> /\ an_exception = NoException
    /\ finish_order = <<>> /\ scanned = {}

FpIdle == fp_pc = "idle" /\ fp_inputs = <<>> /\ fp_versions = <<>>

KeyIdle ==
    /\ key_pc = "idle" /\ key_args = <<>> /\ key_store = <<>> /\ key_result = <<>>

CacheIdle ==
    /\ stream_write = TRUE /\ cache_clock = 0
    /\ dir_entry = <<>> /\ dir_tmp = <<>> /\ inodes = <<>>
    /\ index_file = <<>> /\ index_tmp = <<>> /\ th = <<>> /\ calls_made = 0
    /\ utc_offset = 0

SummaryIdle ==
    /\ sum_pc = "idle" /\ sum_columns = <<>> /\ sum_rows = <<>>
    /\ data_summary = <<>>

CoreIdle ==
    /\ ProfileIdle /\ CompareIdle /\ AnalyzeIdle /\ CacheIdle /\ KeyIdle
    /\ FpIdle

MetricIdle ==
    /\ met_pc = "idle" /\ met_before = <<>> /\ met_after = <<>>
    /\ met_result = <<>>

ExplainIdle ==
    /\ ex_pc = "idle" /\ ex_files = <<>> /\ files_reasons = <<>>
    /\ rule_results = <<>>
    /\ recent_windows = <<>> /\ reason_candidates = <<>>

DriftIdle ==
    /\ drift_pc = "idle" /\ drift_files = <<>> /\ shared_columns = <<>>
    /\ drift = <<>>

JobIdle ==
    /\ job_now = 0 /\ accepted = <<>> /\ PREPROCESS_JOBS = <<>>
    /\ pool_queue = <<>> /\ pool_workers = <<>> /\ response = <<>>

ExtraIdle == SummaryIdle /\ MetricIdle /\ ExplainIdle /\ DriftIdle /\ JobIdle

InitProfile ==
    ProfileInit /\ CompareIdle /\ AnalyzeIdle /\ CacheIdle /\ KeyIdle /\ FpIdle
    /\ ExtraIdle
NextProfile == ScanRow \/ FinishScan
SpecProfile == InitProfile /\ [][NextProfile]_vars

InitExplain ==
    ExplainInit /\ CoreIdle /\ SummaryIdle /\ MetricIdle /\ DriftIdle /\ JobIdle
NextExplain == ExplainFile \/ AssembleReasons
SpecExplain == InitExplain /\ [][NextExplain]_vars

InitRecent ==
    RecentInit /\ CoreIdle /\ SummaryIdle /\ MetricIdle /\ DriftIdle /\ JobIdle

InitDrift ==
    DriftInit /\ CoreIdle /\ SummaryIdle /\ MetricIdle /\ ExplainIdle /\ JobIdle
NextDrift == SchemaDrift
SpecDrift == InitDrift /\ [][NextDrift]_vars

\* The preprocess jobs of web.py.  The threads of the pool run: a free
\* thread takes the next queued call, and a call that is processing ends.
InitJobs ==
    JobInit /\ CoreIdle /\ SummaryIdle /\ MetricIdle /\ ExplainIdle /\ DriftIdle
NextJobs ==
    \/ SubmitPreprocessJob
    \/ JobWorkerStart
    \/ JobWorkerFinish
    \/ GetPreprocessJob
    \/ JobTick
SpecJobs ==
    /\ InitJobs /\ [][NextJobs]_vars
    /\ WF_vars(JobWorkerStart) /\ WF_vars(JobWorkerFinish)
NextRecent == ExplainFile
SpecRecent == InitRecent /\ [][NextRecent]_vars

InitMetrics ==
    MetricInit /\ CoreIdle /\ SummaryIdle /\ ExplainIdle /\ DriftIdle /\ JobIdle
NextMetrics == ComputeMetrics
SpecMetrics == InitMetrics /\ [][NextMetrics]_vars

\* A call of _profile_csv_stream or a call of summarize_reader.
InitDtype ==
    /\ CompareIdle /\ AnalyzeIdle /\ CacheIdle /\ KeyIdle /\ FpIdle
    /\ MetricIdle /\ ExplainIdle /\ DriftIdle /\ JobIdle
    /\ \/ ProfileInit /\ SummaryIdle
       \/ SummarizeInit /\ ProfileIdle
NextDtype == ScanRow \/ FinishScan \/ SummarizeReader
SpecDtype == InitDtype /\ [][NextDtype]_vars

InitCompare ==
    CompareInit /\ ProfileIdle /\ AnalyzeIdle /\ CacheIdle /\ KeyIdle /\ FpIdle
    /\ ExtraIdle
NextCompare == CompareCall
SpecCompare == InitCompare /\ [][NextCompare]_vars

InitAnalyze ==
    AnalyzeInit /\ ProfileIdle /\ CompareIdle /\ CacheIdle /\ KeyIdle /\ FpIdle
    /\ ExtraIdle
NextAnalyze ==
    AnalyzeStart \/ SerialStep \/ WorkerStart \/ WorkerFinish \/ Collect
        \/ Shutdown \/ Assemble
SpecAnalyze == InitAnalyze /\ [][NextAnalyze]_vars

InitCache ==
    CacheInit /\ ProfileIdle /\ CompareIdle /\ AnalyzeIdle /\ KeyIdle /\ FpIdle
    /\ ExtraIdle
NextCache ==
    Lookup \/ LoadRead \/ LoadRecord \/ SaveOpen \/ SaveWrite \/ SaveReplace
        \/ SaveRecord \/ IndexWrite \/ IndexReplace \/ Enforce
SpecCache == InitCache /\ [][NextCache]_vars

InitCacheSeq ==
    CacheSeqInit /\ ProfileIdle /\ CompareIdle /\ AnalyzeIdle /\ KeyIdle /\ FpIdle
    /\ ExtraIdle
NextCacheSeq ==
    Lookup \/ LoadRead \/ LoadRecord \/ SaveOpen \/ SaveWrite \/ SaveReplace
        \/ SaveRecord \/ IndexWrite \/ IndexReplace \/ Enforce \/ NextCall
SpecCacheSeq == InitCacheSeq /\ [][NextCacheSeq]_vars

InitLineage ==
    LineageInit /\ ProfileIdle /\ AnalyzeIdle /\ CacheIdle /\ KeyIdle /\ FpIdle
    /\ ExtraIdle
NextLineage == LineageCall
SpecLineage == InitLineage /\ [][NextLineage]_vars

InitKey ==
    KeyInit /\ ProfileIdle /\ CompareIdle /\ AnalyzeIdle /\ CacheIdle /\ FpIdle
    /\ ExtraIdle
NextKey == KeyFirstCall \/ KeySecondCall
SpecKey == InitKey /\ [][NextKey]_vars

InitFingerprint ==
    FpInit /\ ProfileIdle /\ CompareIdle /\ AnalyzeIdle /\ CacheIdle /\ KeyIdle
    /\ ExtraIdle
NextFingerprint == FingerprintBoth
SpecFingerprint == InitFingerprint /\ [][NextFingerprint]_vars

\* ============================================================== properties
ScanDone == scan_pc = "done"

\* The distinct non-missing values of column c in the file.
DistinctValues(c) == {v \in Values : column_values[c][v] > 0}

HasOtherEntry(c) ==
    \E i \in 1..Len(profiles[c].top_values) :
        profiles[c].top_values[i].value = OtherKey

\* C1: for every column named in the header, after the scan
\* missing_count + non_missing_count equals row_count, for any header,
\* including one that repeats a column name.
C1_MissingConservation ==
    ScanDone =>
        \A c \in ColNames(columns) :
            profiles[c].missing_count + profiles[c].non_missing_count = row_count

\* C2: the reported unique count of every profiled column is at most
\* min(bitmap capacity, non_missing_count).
C2_UniqueCountBound ==
    ScanDone =>
        \A c \in ColNames(columns) :
            profiles[c].unique_count
                <= Min(UNIQUE_BITMAP_SIZE, profiles[c].non_missing_count)

\* C3: a column with more distinct non-missing values than the tracking cap
\* has top_values_capped true and an '__OTHER__' entry among its top values.
C3_CapOverflowMarker ==
    ScanDone =>
        \A c \in ColNames(columns) :
            Cardinality(DistinctValues(c)) > TOP_VALUE_TRACK_CAP
                => profiles[c].top_values_capped /\ HasOtherEntry(c)

\* ---------------------------------------------------------------- comparator
Returned == cmp_pc = "returned"

\* C4: comparing a CSV text with itself reports psi = 0, js_divergence = 0
\* and chi_square = 0 for every common column, numeric columns whose
\* histogram has empty buckets included.
C4_SelfCompareZero ==
    (Returned /\ before_csv_text = after_csv_text) =>
        \A c \in DOMAIN cmp_result.column_metrics :
            /\ cmp_result.column_metrics[c].psi = 0
            /\ cmp_result.column_metrics[c].js_divergence = 0
            /\ cmp_result.column_metrics[c].chi_square = Zero

\* ------------------------------------------------------------------ analyzer
Ended == an_pc \in {"returned", "raised"}
PoolUsed == futures # <<>>
ScanFailed == {i \in scanned : source_kind[csv_paths[i]] = "headerless"}
FailedTasks == {i \in 1..Len(outcomes) : outcomes[i].kind = "exception"}

\* C7: with the worker pool, the files list of the result is in the order of
\* csv_paths, each entry holding the profile of its own file, whatever the
\* order in which the scans completed.
C7_FilesInCallerOrder ==
    (an_pc = "returned" /\ PoolUsed) =>
        /\ Len(files) = Len(csv_paths)
        /\ \A i \in 1..Len(files) :
            /\ files[i].path = csv_paths[i]
            /\ files[i].summary = SourceProfile(csv_paths[i]).summary
            /\ files[i].column_profiles = SourceProfile(csv_paths[i]).column_profiles

\* A pool call returned although a later file completed before an earlier one.
C7_Witness ==
    /\ an_pc = "returned" /\ PoolUsed
    /\ Len(files) >= 2
    /\ \E a, b \in 1..Len(finish_order) : a < b /\ finish_order[a] > finish_order[b]

C9_CacheFailureIsMiss ==
    (Ended /\ use_cache) =>
        /\ an_exception.name \notin {"KeyError", "OSError", "JSONDecodeError"}
        /\ \A i \in 1..Len(files) :
               files[i].summary = SourceProfile(csv_paths[i]).summary

\* --------------------------------------------------------------------- cache
Quiescent == \A t \in Threads : th[t].pc \in {"done", "raised"}
InIndexUpdate(t) == th[t].pc \in {"idx_write", "idx_replace"}
EntryBytes ==
    SeqSum([k \in Keys |-> IF dir_entry[k] = 0 THEN 0 ELSE FileSize(inodes[dir_entry[k]])])

\* C5: cache entry writes are atomic: under every interleaving and either
\* value of the stream-write switch, a reader that opens an entry file sees
\* no file or a completely written one, never a partially written one.  No
\* json.load read a partial file, and no entry file linked in the directory
\* (what a reader opening it now would get) is partial.
C5_AtomicEntryWrite ==
    /\ \A t \in Threads : th[t].saw # "partial"
    /\ \A k \in Keys : dir_entry[k] # 0 => inodes[dir_entry[k]].chunks = AllChunks(k)

\* C6: index updates are mutually exclusive (no two threads are between
\* loading the index and replacing it), so when calls on distinct keys have
\* finished, every entry file they left has its entry in the index.
C6_IndexUpdatesExclusive ==
    /\ \A t, u \in Threads : (InIndexUpdate(t) /\ InIndexUpdate(u)) => t = u
    /\ (/\ \A t \in Threads : th[t].pc = "done"
        /\ \A t, u \in Threads : th[t].key = th[u].key => t = u)
           => \A t \in Threads :
                  dir_entry[th[t].key] # 0 => th[t].key \in IndexKeys(index_file)

\* C10: once the calls have ended, at least one of them through a completed
\* _save_cached_profile, the entry files of the cache directory hold at most
\* CACHE_MAX_TOTAL_BYTES bytes in total.
C10_TotalBytesBounded ==
    (Quiescent /\ \E t \in Threads : th[t].outcome = "saved")
        => EntryBytes <= CACHE_MAX_TOTAL_BYTES

\* ------------------------------------------------------------- LRU and TTL
LastAccess(index, key) ==
    LET i == CHOOSE i \in 1..Len(index) : index[i].key = key
    IN  index[i].last_access
Position(index, key) == CHOOSE i \in 1..Len(index) : index[i].key = key

\* A step of _enforce_cache_limits, and what it did to the entry of key k:
\* the entry was indexed with its file on disk, its last access was past the
\* TTL at the clock reading of the step, its file was unlinked by the step.
EnforceStep == \E t \in Threads : th[t].pc = "enforce" /\ th'[t].pc # "enforce"
Indexed(k) == k \in IndexKeys(index_file) /\ dir_entry[k] # 0
ExpiredAtStep(k) ==
    utcnow_timestamp(cache_clock') - LastAccess(index_file, k)
        > CACHE_ENTRY_TTL_SECONDS
Unlinked(k) == dir_entry[k] # 0 /\ dir_entry'[k] = 0
EvictedForSize(k) == Indexed(k) /\ Unlinked(k) /\ ~ExpiredAtStep(k)

\* A hit, and a save before its _enforce_cache_limits, left the entry of the
\* key in the index with the clock reading of the access as last access.
AccessRefreshed ==
    \A t \in Threads :
        (th[t].outcome = "hit" \/ th[t].pc = "enforce")
            => /\ th[t].key \in IndexKeys(index_file)
               /\ LastAccess(index_file, th[t].key) = utcnow_timestamp(cache_clock)

\* An entry evicted for size takes every non-expired entry of older last
\* access with it, and the eviction stopped as soon as the total was at or
\* below the ceiling: putting back one evicted entry exceeds the ceiling.
EvictionIsLRU ==
    EnforceStep =>
        /\ \A k \in Keys : EvictedForSize(k) =>
               \A j \in Keys :
                   (/\ Indexed(j) /\ ~ExpiredAtStep(j)
                    /\ LastAccess(index_file, j) < LastAccess(index_file, k))
                       => Unlinked(j)
        /\ (\E k \in Keys : EvictedForSize(k)) =>
               \E k \in Keys :
                   /\ EvictedForSize(k)
                   /\ EntryBytes' + FileSize(inodes[dir_entry[k]])
                          > CACHE_MAX_TOTAL_BYTES

ExpiredNeverHit ==
    \A t \in Threads :
        th[t].outcome = "hit" => th[t].age <= CACHE_ENTRY_TTL_SECONDS

\* The step of _load_cached_profile that finds an entry file older than the
\* TTL unlinks it and drops the key from the index it goes on to save.
LoadRemovesExpired ==
    \A t \in Threads :
        (/\ th[t].pc = "start" /\ th'[t].pc # "start"
         /\ dir_entry[th[t].key] # 0
         /\ cache_clock' - inodes[dir_entry[th[t].key]].mtime
                > CACHE_ENTRY_TTL_SECONDS)
            => /\ dir_entry'[th[t].key] = 0
               /\ th'[t].pc = "idx_write"
               /\ th[t].key \notin IndexKeys(th'[t].index)

\* _enforce_cache_limits unlinks every indexed entry whose last access is
\* older than the TTL and drops it from the index it goes on to save.
EnforceRemovesStale ==
    \A t \in Threads :
        (th[t].pc = "enforce" /\ th'[t].pc # "enforce")
            => \A k \in Keys :
                   (Indexed(k) /\ ExpiredAtStep(k))
                       => Unlinked(k) /\ k \notin IndexKeys(th'[t].index)

\* C12: a cache entry older than the TTL is never returned as a hit:
\* _load_cached_profile on such an entry removes it from disk and from the
\* index and reports a miss, and _enforce_cache_limits removes every indexed
\* entry whose last access is older than the TTL.
C12_ExpiredNeverReturned ==
    []ExpiredNeverHit /\ [][LoadRemovesExpired /\ EnforceRemovesStale]_vars

\* C13: a cached profile is returned for a file only while all key
\* components are unchanged since it was saved: when the resolved path, the
\* size, the modification time, the group column or the target column of the
\* call differs from the values at save time, the load is a miss and the file
\* is profiled again, with the arguments of the call.
C13_HitOnlyOnUnchangedComponents ==
    (key_pc = "returned" /\ key_args # key_store.saved)
        => /\ ~key_result.hit
           /\ key_result.profile_of = key_args

\* ------------------------------------------------------------ lineage store
\* The fingerprints of the two texts of the last call, computed afresh.
BeforeFingerprint ==
    build_dataset_fingerprint(before_csv_text, before_source, <<>>).fingerprint
AfterFingerprint ==
    build_dataset_fingerprint(after_csv_text, after_source, <<>>).fingerprint
CommonColumns ==
    SortedTexts(ColNames(before_csv_text.header) \cap ColNames(after_csv_text.header))

\* C14: every call of compare_csv_texts that returns has computed a
\* fingerprint for each side and persisted a lineage record that links the
\* two fingerprints, with the common columns as context, also when the texts
\* share no column or no column yields metrics; the returned lineage_path
\* names that record.
C14_LineagePersisted ==
    Returned =>
        /\ cmp_result.before.fingerprint = BeforeFingerprint
        /\ cmp_result.after.fingerprint = AfterFingerprint
        /\ cmp_result.lineage_path \in DOMAIN lineage_files
        /\ LET record == lineage_files[cmp_result.lineage_path]
           IN  /\ record.before.fingerprint = BeforeFingerprint
               /\ record.after.fingerprint = AfterFingerprint
               /\ record.context = [common_columns |-> CommonColumns]

\* A call returned for two texts without a common column, with no metrics,
\* and its record is in the store.
C14_Witness ==
    /\ Returned
    /\ cmp_result.common_columns = <<>>
    /\ DOMAIN cmp_result.column_metrics = {}
    /\ cmp_result.lineage_path \in DOMAIN lineage_files
    /\ lineage_files[cmp_result.lineage_path].after.fingerprint = AfterFingerprint

\* The (before fingerprint, after fingerprint) pair a stored record links.
PairOf(record) == <<record.before.fingerprint, record.after.fingerprint>>

\* C15: the lineage store is append-only with one file per (before, after)
\* fingerprint pair: saving the link of one pair never overwrites, modifies
\* or removes the stored record of a different pair.
C15_LineageAppendOnly ==
    [][\A p \in DOMAIN lineage_files :
           PairOf(lineage_files[p])
                   # <<cmp_result'.before.fingerprint, cmp_result'.after.fingerprint>>
               => /\ p \in DOMAIN lineage_files'
                  /\ lineage_files'[p] = lineage_files[p]]_vars

\* C16: repeating a compare on identical inputs (same texts and source names)
\* is idempotent on the lineage store: the second call leaves the stored
\* record of the pair with the content the first call wrote.
C16_RepeatedCompareIdempotent ==
    [][(/\ compare_calls >= 1
        /\ compare_calls' = compare_calls + 1
        /\ before_csv_text' = before_csv_text
        /\ after_csv_text' = after_csv_text
        /\ before_source' = before_source
        /\ after_source' = after_source)
           => lineage_files'[cmp_result'.lineage_path]
                  = lineage_files[cmp_result.lineage_path]]_vars

\* C17: build_dataset_fingerprint is deterministic and change-sensitive: on
\* identical (csv_text, source_name, meta) it yields the identical
\* fingerprint, and any change to row content, to the header or to the
\* source name yields a different fingerprint.
C17_FingerprintChangeSensitive ==
    fp_pc = "done" =>
        ((fp_inputs[1] = fp_inputs[2])
            <=> (fp_versions[1].fingerprint = fp_versions[2].fingerprint))

\* ------------------------------------------------------------------ profiler
\* C18: feeding a stream of L items one at a time into a reservoir of
\* capacity C (seen = 1..L) leaves exactly min(L, C) retained items, for
\* every L >= 0 and every outcome of the random draws, and every retained
\* item is an item of the stream.  The streams are the non-missing values of
\* a column (_reservoir_sample_str) and its numeric values
\* (_reservoir_sample).
C18_ReservoirSize ==
    \A c \in ColNames(columns) :
        /\ Len(value_samples[c]) = Min(non_missing[c], value_sample_cap)
        /\ \A i \in 1..Len(value_samples[c]) :
               value_samples[c][i] \in DistinctValues(c)
        /\ Len(numeric_outlier_samples[c])
               = Min(numeric_counts[c], outlier_sample_cap)
        /\ \A i \in 1..Len(numeric_outlier_samples[c]) :
               \E v \in DistinctValues(c) :
                   to_float(v) = <<numeric_outlier_samples[c][i]>>

\* A full reservoir of values that was fed more distinct items than it holds,
\* and a full reservoir of numbers that was fed more items than it holds.
C18_Witness ==
    /\ \E c \in ColNames(columns) :
           /\ non_missing[c] > value_sample_cap
           /\ Len(value_samples[c]) = value_sample_cap
           /\ value_samples[c][1] # value_samples[c][2]
           /\ Cardinality(DistinctValues(c)) > value_sample_cap
    /\ \E c \in ColNames(columns) :
           /\ numeric_counts[c] > outlier_sample_cap
           /\ Len(numeric_outlier_samples[c]) = outlier_sample_cap

\* The values top_values can list, in ascending order of Python's str.
ListedOrder == <<<<"1">>, OtherKey, <<"a">>, <<"b">>>>
ListedRank(v) == CHOOSE i \in 1..Len(ListedOrder) : ListedOrder[i] = v

\* C19: in every finished column profile top_values has at most 5 (TOP_N)
\* entries, ordered by descending count and, among entries of equal count,
\* by ascending value, whatever the order in which the values first
\* appeared in the file.
C19_TopValuesOrdered ==
    ScanDone =>
        \A c \in ColNames(columns) :
            LET top == profiles[c].top_values
            IN  /\ Len(top) <= TOP_N
                /\ \A i, j \in 1..Len(top) :
                       i < j =>
                           \/ top[i].count > top[j].count
                           \/ /\ top[i].count = top[j].count
                              /\ ListedRank(top[i].value) < ListedRank(top[j].value)

\* The values top_values lists for column c.
Listed(c) ==
    {profiles[c].top_values[i].value : i \in 1..Len(profiles[c].top_values)}

\* C20: for a column with at most TOP_VALUE_TRACK_CAP distinct non-missing
\* values the top values are exact: top_values_capped is false, no
\* '__OTHER__' entry appears, the count of each listed value is its number of
\* occurrences in the column, and no unlisted value occurs more often than a
\* listed one.
C20_TopValuesExactUnderCap ==
    ScanDone =>
        \A c \in ColNames(columns) :
            Cardinality(DistinctValues(c)) <= TOP_VALUE_TRACK_CAP =>
                LET top == profiles[c].top_values
                IN  /\ ~profiles[c].top_values_capped
                    /\ ~HasOtherEntry(c)
                    /\ \A i \in 1..Len(top) :
                           top[i].count = column_values[c][top[i].value]
                    /\ \A v \in DistinctValues(c) \ Listed(c) :
                           \A i \in 1..Len(top) :
                               column_values[c][v] <= top[i].count

\* The occurrences of the most frequent value of column c.
MaxOccurrences(c) ==
    SetMax({column_values[c][v] : v \in DistinctValues(c)})

\* C21: dominant_value_ratio of a column is the ratio of the single most
\* frequent observed value of the column, never that of the aggregated
\* '__OTHER__' overflow bucket, and is 0 when the column has no values.
C21_DominantValueRatio ==
    ScanDone =>
        \A c \in ColNames(columns) :
            IF DistinctValues(c) = {}
                THEN profiles[c].dominant_value_ratio = 0
            ELSE /\ profiles[c].top_values[1].value # OtherKey
                 /\ profiles[c].dominant_value_ratio
                        = Round6(MaxOccurrences(c), row_count)

\* The non-missing values the rows hand to column c of summarize_reader.
SummaryValues(c) ==
    {Strip(DictRow(sum_columns, sum_rows[i])[c]) :
        i \in {j \in 1..Len(sum_rows) :
                  DictRow(sum_columns, sum_rows[j])[c] # None}} \ {<<>>}

\* Whether a set of non-missing values makes a float column.
AllCoerce(values) ==
    /\ \E v \in values : to_float(v) # NoFloat
    /\ \A v \in values : to_float(v) # NoFloat

\* C22: a column's dtype is "float" if and only if it has at least one
\* non-missing value that coerces to a number and no non-missing value that
\* fails coercion, otherwise "string"; a string column has no entry in
\* numeric_stats; the same for summarize_reader and _profile_csv_stream.
C22_DtypeFloatIffAllNumeric ==
    /\ ScanDone =>
        \A c \in ColNames(columns) :
            /\ profiles[c].dtype
                   = IF AllCoerce(DistinctValues(c)) THEN "float" ELSE "string"
            /\ c \in DOMAIN numeric_stats <=> profiles[c].dtype = "float"
    /\ sum_pc = "done" =>
        \A c \in ColNames(sum_columns) :
            /\ data_summary.dtypes[c]
                   = IF AllCoerce(SummaryValues(c)) THEN "float" ELSE "string"
            /\ c \in DOMAIN data_summary.numeric_stats
                   <=> data_summary.dtypes[c] = "float"

\* A finished scan with a numeric column and a mixed numeric/text column.
C22_Witness ==
    /\ ScanDone
    /\ \E c \in ColNames(columns) :
        /\ \E v \in DistinctValues(c) : to_float(v) # NoFloat
        /\ \E v \in DistinctValues(c) : to_float(v) = NoFloat
        /\ profiles[c].dtype = "string"
        /\ c \notin DOMAIN numeric_stats
    /\ \E c \in ColNames(columns) :
        profiles[c].dtype = "float" /\ c \in DOMAIN numeric_stats

\* C23: for every pair of inputs and every compared column, the metrics psi,
\* js_divergence and chi_square reported are all >= 0.
C23_MetricsNonNegative ==
    met_pc = "done" =>
        /\ met_result.psi.m >= 0
        /\ met_result.js_divergence.m >= 0
        /\ met_result.chi_square.m >= 0

\* The sum of the tracked counts of column c.
RECURSIVE CountSum(_)
CountSum(counter) ==
    IF counter = <<>> THEN 0 ELSE Head(counter).count + CountSum(Tail(counter))

\* The tracked values of a column are at most the cap, and the tracked counts
\* plus the overflow count are the values observed.
BoundedCounterBalance ==
    scan_pc \in {"scan", "done"} =>
        \A c \in ColNames(columns) :
            /\ Len(value_counts[c]) <= TOP_VALUE_TRACK_CAP
            /\ \A i, j \in 1..Len(value_counts[c]) :
                   value_counts[c][i].value = value_counts[c][j].value => i = j
            /\ CountSum(value_counts[c]) + value_overflow[c] = non_missing[c]

\* A row whose value for a column is already tracked leaves the overflow
\* count of the column as it is.
TrackedNeverOverflows ==
    scan_pc = "scan" =>
        \A c \in ColNames(columns) : \A v \in Values :
            (column_values'[c][v] > column_values[c][v]
                 /\ InCounter(value_counts[c], v))
                => value_overflow'[c] = value_overflow[c]

\* C30: after any sequence of _update_bounded_counter calls on a column the
\* number of tracked distinct values is at most the cap, the tracked counts
\* plus the overflow count equal the number of values observed
\* (non_missing_count), and a value that is already tracked never increments
\* the overflow counter.
C30_BoundedCounterAccounting ==
    []BoundedCounterBalance /\ [][TrackedNeverOverflows]_vars

\* A column at the cap that overflowed and then saw a tracked value again.
C30_Witness ==
    /\ scan_pc = "scan"
    /\ \E c \in ColNames(columns) :
        /\ Len(value_counts[c]) = TOP_VALUE_TRACK_CAP
        /\ value_overflow[c] > 0
        /\ \E i \in 1..Len(value_counts[c]) :
               /\ value_counts[c][i].count > 1
               /\ column_values[c][value_counts[c][i].value] = 2
        /\ Cardinality(DistinctValues(c)) > TOP_VALUE_TRACK_CAP

\* C29: a profiling call with caching enabled completes without error under
\* every interleaving with the other calls on the cache directory: the cache
\* maintenance of one call never makes another call's cache save or index
\* update fail.
C29_ConcurrentCallsComplete ==
    \A t \in DOMAIN th : th[t].outcome # "raised"

\* --------------------------------------------------------------- explainer
\* Whether a list of candidates is in non-increasing score order, with equal
\* scores of one file in descending order of the rule name.
RankedByScore(list, same_file(_, _)) ==
    \A i, j \in 1..Len(list) :
        i < j =>
            /\ list[i].score >= list[j].score
            /\ (list[i].score = list[j].score /\ same_file(list[i], list[j]))
                   => RuleRank(list[i].rule) > RuleRank(list[j].rule)

\* C24: the reason candidates returned by generate_reason_candidates, and the
\* reason_candidates list of analyze_multiple_csv, are in non-increasing
\* score order and contain at most top_k (3) entries; within one file,
\* candidates of equal score are ordered by rule name descending.
C24_ReasonCandidatesRanked ==
    /\ \A f \in 1..Len(files_reasons) :
        /\ Len(files_reasons[f]) <= 3
        /\ RankedByScore(files_reasons[f], LAMBDA x, y : TRUE)
    /\ ex_pc = "returned" =>
        /\ Len(reason_candidates) <= 3
        /\ RankedByScore(reason_candidates, LAMBDA x, y : x.file = y.file)

\* A returned call with a file all four rules proposed a candidate for, and
\* with two candidates of one file and of equal score in the returned list.
C24_Witness ==
    /\ ex_pc = "returned"
    /\ \E f \in 1..Len(rule_results) :
        \A r \in 1..4 : rule_results[f][r] # NoCandidate
    /\ \E i, j \in 1..Len(reason_candidates) :
        /\ i < j
        /\ reason_candidates[i].file = reason_candidates[j].file
        /\ reason_candidates[i].score = reason_candidates[j].score
    /\ \E i, j \in 1..Len(reason_candidates) :
        reason_candidates[i].file # reason_candidates[j].file

\* The largest missing ratio of the columns of file f.
MaxMissingRatio(f) ==
    SetMax({ex_files[f].profiles[i].p.missing_ratio :
               i \in 1..Len(ex_files[f].profiles)})

MissingRatioOf(f, col) ==
    LET i == CHOOSE k \in 1..Len(ex_files[f].profiles) :
                 ex_files[f].profiles[k].col = col
    IN  ex_files[f].profiles[i].p.missing_ratio

\* A file whose only anomaly is one column with missing ratio 0.5.
OnlyMissingHalf(f) ==
    LET ps == ex_files[f].profiles
    IN  /\ Cardinality({i \in 1..Len(ps) : ps[i].p.missing_ratio = 500000}) = 1
        /\ \A i \in 1..Len(ps) :
            /\ ps[i].p.missing_ratio \in {0, 500000}
            /\ ps[i].p.dominant_value_ratio < 650000
            /\ Len(ps[i].p.top_values) <= 1
        /\ ex_files[f].rows = <<>>

\* The rule proposes iff a column has missing ratio >= 0.2 and names the
\* column with the highest ratio; the only-anomaly file gets one candidate.
MissingRuleTriggers(f) ==
    LET c == rule_results[f][1]
    IN  /\ c # NoCandidate <=> MaxMissingRatio(f) >= 200000
        /\ c # NoCandidate =>
            /\ c.rule = "missing_concentration"
            /\ MissingRatioOf(f, c.column) = MaxMissingRatio(f)
        /\ OnlyMissingHalf(f) =>
            /\ Len(files_reasons[f]) = 1
            /\ files_reasons[f][1].rule = "missing_concentration"
            /\ files_reasons[f][1].score = 5000

\* C25 as stated: the missing-concentration rule proposes a candidate if and
\* only if some column has missing ratio >= 0.2; the candidate names the
\* column with the highest missing ratio and has score min(100, ratio*100);
\* a file whose only anomaly is one column with missing ratio 0.5 yields
\* exactly one reason candidate, from this rule, with score 50.
C25_MissingConcentrationExactScore ==
    \A f \in 1..Len(rule_results) :
        /\ MissingRuleTriggers(f)
        /\ rule_results[f][1] # NoCandidate =>
               100 * rule_results[f][1].score = Min(1000000, MaxMissingRatio(f))

\* C25, amended: as stated, with the score min(100, ratio*100) rounded to
\* two decimals.
C25_MissingConcentrationRoundedScore ==
    \A f \in 1..Len(rule_results) :
        /\ MissingRuleTriggers(f)
        /\ rule_results[f][1] # NoCandidate =>
               LET d == 100 * rule_results[f][1].score
                            - Min(1000000, MaxMissingRatio(f))
               IN  -50 <= d /\ d <= 50

\* An only-anomaly file, a file with two columns over the threshold whose
\* later column has the higher ratio, or a score that was rounded.
C25_Witness ==
    /\ Len(rule_results) = 2
    /\ OnlyMissingHalf(1)
    /\ LET ps == ex_files[2].profiles
       IN  /\ ps[1].p.missing_ratio = 500000
           /\ ps[2].p.missing_ratio = 700000
           /\ rule_results[2][1].column = ps[2].col

\* The rows of file f that have a date in the date column and a number in
\* the numeric column.
PairedRows(f) ==
    {i \in 1..Len(ex_files[f].rows) :
        /\ ex_files[f].rows[i].d.fmt \in DATE_FORMATS
        /\ ParseFloat(Strip(ex_files[f].rows[i].v)) # NoFloat}

RowsIn(window) == {window[i].row : i \in 1..Len(window)}

\* C28: in the recent-change rule, whenever a date column has at least 6
\* valid date-paired rows, the previous and recent windows taken from the
\* date-sorted series both have exactly size max(3, total // 5), are
\* disjoint, and the recent window is the last rows of the series; with
\* fewer than 6 such rows the rule abstains for that date column.
C28_RecentChangeWindows ==
    \A f \in 1..Len(recent_windows) :
        /\ Len(recent_windows[f]) = 1
        /\ LET pass == recent_windows[f][1]
               total == Cardinality(PairedRows(f))
               size == IF total \div 5 > 3 THEN total \div 5 ELSE 3
           IN  /\ RowsIn(pass.series) = PairedRows(f)
               /\ Len(pass.series) = total
               /\ \A i, j \in 1..total : i < j => pass.series[i].dt <= pass.series[j].dt
               /\ total >= 6 =>
                   /\ ~pass.abstained
                   /\ Len(pass.prev) = size /\ Len(pass.recent) = size
                   /\ RowsIn(pass.prev) \cap RowsIn(pass.recent) = {}
                   /\ Cardinality(RowsIn(pass.prev)) = size
                   /\ pass.recent = SubSeq(pass.series, total - size + 1, total)
                   /\ pass.prev = SubSeq(pass.series, total - 2 * size + 1, total - size)
               /\ total < 6 =>
                   /\ pass.abstained
                   /\ pass.candidates = <<>>
                   /\ rule_results[f][4] = NoCandidate

\* A series of 20 or more rows (window 4) taken from rows out of date order,
\* some of them without a valid date or number.
C28_Witness ==
    /\ Len(recent_windows) = 1
    /\ LET pass == recent_windows[1][1]
       IN  /\ Len(pass.series) >= 20
           /\ Len(ex_files[1].rows) > Len(pass.series)
           /\ Len(pass.recent) = 4 /\ Len(pass.prev) = 4
           /\ \E i \in 1..Len(pass.series) - 1 :
                  pass.series[i].row > pass.series[i + 1].row
           /\ rule_results[1][4] # NoCandidate

\* ------------------------------------------------------------ schema drift
FilesWith(col) == {f \in 1..Len(drift_files) : col \in drift_files[f].columns}
StatsFiles(col) ==
    {f \in 1..Len(drift_files) : col \in DOMAIN drift_files[f].numeric_stats}
MeanOf(f, col) == drift_files[f].numeric_stats[col].mean

\* The largest difference of two means of the column, as a fraction.
MeanSpread(col) ==
    LET diffs == {FracSub(MeanOf(f, col), MeanOf(g, col)) :
                     f \in StatsFiles(col), g \in StatsFiles(col)}
    IN  CHOOSE x \in diffs : \A y \in diffs : ~FracLess(x, y)

\* The drift record of every shared column but for mean_range.
DriftRecordsButMean ==
    /\ DOMAIN drift = {c \in {"a", "b"} : \A f \in 1..Len(drift_files) :
                                             c \in drift_files[f].columns}
    /\ \A col \in DOMAIN drift :
        /\ drift[col].dtype_changed <=>
               \E f, g \in FilesWith(col) :
                   drift_files[f].column_profiles[col].dtype
                       # drift_files[g].column_profiles[col].dtype
        /\ \E f, g \in FilesWith(col) :
               /\ drift[col].missing_ratio_range
                      = drift_files[f].column_profiles[col].missing_ratio
                          - drift_files[g].column_profiles[col].missing_ratio
               /\ \A h \in FilesWith(col) :
                      /\ drift_files[h].column_profiles[col].missing_ratio
                             <= drift_files[f].column_profiles[col].missing_ratio
                      /\ drift_files[h].column_profiles[col].missing_ratio
                             >= drift_files[g].column_profiles[col].missing_ratio
        /\ \E f, g \in FilesWith(col) :
               /\ drift[col].dominant_value_ratio_range
                      = drift_files[f].column_profiles[col].dominant_value_ratio
                          - drift_files[g].column_profiles[col].dominant_value_ratio
               /\ \A h \in FilesWith(col) :
                      /\ drift_files[h].column_profiles[col].dominant_value_ratio
                             <= drift_files[f].column_profiles[col].dominant_value_ratio
                      /\ drift_files[h].column_profiles[col].dominant_value_ratio
                             >= drift_files[g].column_profiles[col].dominant_value_ratio
        /\ drift[col].missing_ratio_range >= 0
        /\ drift[col].dominant_value_ratio_range >= 0
        /\ Cardinality(StatsFiles(col)) < 2 => drift[col].mean_range = 0

\* C26 as stated: for every shared column, dtype_changed is true iff the
\* files show more than one distinct dtype for it, missing_ratio_range and
\* dominant_value_ratio_range equal max minus min over the files (hence
\* >= 0), and mean_range equals max minus min of the numeric means, which is
\* 0 when fewer than two files have numeric stats for the column; the
\* record's columns are exactly the columns present in every file.
C26_SchemaDriftExactMeanRange ==
    drift_pc = "done" =>
        /\ DriftRecordsButMean
        /\ \A col \in DOMAIN drift :
            StatsFiles(col) # {} =>
                drift[col].mean_range * MeanSpread(col)[2]
                    = MeanSpread(col)[1] * 1000000

\* C26, amended: as stated, with mean_range equal to max minus min of the
\* numeric means rounded to six decimals.
C26_SchemaDriftRoundedMeanRange ==
    drift_pc = "done" =>
        /\ DriftRecordsButMean
        /\ \A col \in DOMAIN drift :
            StatsFiles(col) # {} =>
                LET d == drift[col].mean_range * MeanSpread(col)[2]
                             - MeanSpread(col)[1] * 1000000
                IN  -MeanSpread(col)[2] <= 2 * d /\ 2 * d <= MeanSpread(col)[2]

\* Two files: a column of one dtype only, in all files, with two different
\* means; a column that one file lacks.
C26_Witness ==
    /\ drift_pc = "done"
    /\ Len(drift_files) = 2
    /\ DOMAIN drift = {"a"}
    /\ drift_files[1].columns = {"a", "b"}
    /\ ~drift["a"].dtype_changed
    /\ drift["a"].mean_range > 0
    /\ drift["a"].dominant_value_ratio_range > 0

\* --------------------------------------------------------- preprocess jobs
FailureReasons == {"memory_limit", "file_corruption", "parser_error"}

\* What get_preprocess_job would return for the job now.
ReportOf(job_id) == get_preprocess_job(PREPROCESS_JOBS, job_now, job_id)
ReportAfter(job_id) == get_preprocess_job(PREPROCESS_JOBS', job_now', job_id)

Expired(job_id) == accepted[job_id].expire_at <= job_now

\* The worker has run the job to its end.
Processed(job_id) ==
    /\ \A i \in 1..Len(pool_queue) : pool_queue[i].job_id # job_id
    /\ \A w \in DOMAIN pool_workers : pool_workers[w].job_id # job_id

\* The report of a processed job says how processing ended.
Settled(job_id) ==
    IF accepted[job_id].payload.raises
    THEN /\ ReportOf(job_id).status = "failed"
         /\ ReportOf(job_id).failure_reason \in FailureReasons
    ELSE ReportOf(job_id).status = "done"

StatusRank(status) ==
    IF status = "queued" THEN 1 ELSE IF status = "running" THEN 2
    ELSE IF status \in {"done", "failed"} THEN 3 ELSE 0

\* What get_preprocess_job returned is right.
ResponseRight ==
    /\ response.job_id \notin 1..Len(accepted) => response.status \in {"", "not_found"}
    /\ response.job_id \in 1..Len(accepted) =>
        /\ response.status \in {"not_found", "queued", "running", "done", "failed"}
        /\ response.status = "done" => ~accepted[response.job_id].payload.raises
        /\ response.status = "failed" =>
            /\ accepted[response.job_id].payload.raises
            /\ response.failure_reason \in FailureReasons
        /\ response.status = "not_found" => Expired(response.job_id)

\* A processed job that has not expired is reported as it ended.
ProcessedIsSettled ==
    \A job_id \in 1..Len(accepted) :
        Processed(job_id) /\ ~Expired(job_id) => Settled(job_id)

\* The reported status of a job moves forward only.
StatusForward ==
    \A job_id \in 1..Len(accepted) :
        /\ StatusRank(ReportAfter(job_id).status) > 0
               => StatusRank(ReportAfter(job_id).status)
                      >= StatusRank(ReportOf(job_id).status)
        /\ ReportOf(job_id).status \in {"done", "failed"}
               => ReportAfter(job_id).status \in {ReportOf(job_id).status, "not_found"}
        /\ ReportOf(job_id).status = "not_found"
               => ReportAfter(job_id).status = "not_found"

\* Every job accepted so far is reported as it ended, or has expired.  The
\* reports of a job that has ended stay, so that this holding again and
\* again is each accepted job being reported as it ended, or expiring.
AllSettledOrExpired ==
    \A job_id \in 1..Len(accepted) : Settled(job_id) \/ Expired(job_id)

\* C27: every preprocess job accepted by submit_preprocess_job eventually
\* (once a pool worker runs it, and before it expires) is reported by
\* get_preprocess_job as done when processing returned, or as failed with a
\* failure_reason in {memory_limit, file_corruption, parser_error} when
\* processing raised; its reported status only moves forward queued ->
\* running -> done/failed and never leaves done or failed for queued or
\* running; an unknown job id is reported as not_found.
C27_PreprocessJobLifecycle ==
    /\ [](ResponseRight /\ ProcessedIsSettled)
    /\ [][StatusForward]_vars
    /\ []<>AllSettledOrExpired

\* Three jobs were accepted while the pool has two threads; the last get
\* asked for a job that raised, and it is reported as failed for memory.
C27_Witness ==
    /\ Len(accepted) = MaxJobs
    /\ response.job_id = MaxJobs
    /\ response.status = "failed"
    /\ response.failure_reason = "memory_limit"
    /\ ~Expired(MaxJobs)
    /\ \E job_id \in 1..Len(accepted) : ReportOf(job_id).status = "done"

==============================================================================
